---- MODULE Spec2Model ----
(***************************************************************************)
(* A model of the `fast` command-line tool: the command registry, the      *)
(* dispatcher of main(), the fzf palette, the tasks of 1f.toml and the     *)
(* secret validation of `fast setup`.                                      *)
(*                                                                         *)
(* Text that the program scans (the selector's output, the values of       *)
(* environment variables) is a sequence of chunks: a chunk is one          *)
(* whitespace character (" ", "\t", "\n", ...) or a run of other           *)
(* characters.                                                             *)
(* Command names, task names and argument tokens are strings.              *)
(***************************************************************************)
EXTENDS Integers, Sequences, FiniteSets, TLC

(***************************************************************************)
(* Bounds of the explored inputs.                                          *)
(***************************************************************************)
\* longest cmds list of a task in 1f.toml
MaxCmds == 2
\* longest argument vector (process.argv.slice(2))
MaxArgs == 3
\* longest selector output, in chunks
MaxOut == 3

\* the task names a 1f.toml may declare: a free name, the name of a
\* built-in, and the names handleTopLevel treats itself
TaskNames == {"dev", "setup", "help"}
\* the environment variables a 1f.toml may declare as secrets
SecretNames == {"API_TOKEN", "DB_URL"}
\* first tokens of an argument vector
ArgHeads ==
  {"setup", "version", "tasks", "dev", "help", "h", "--help", "-h", "--version",
   "bogus", ""}
\* later tokens of an argument vector
ArgRest == {"--help", "-h", "setup", "x", ""}
\* the chunks of a selector output
OutChunks == {"\t", "\n", "\r", " ", "dev", "bogus"}
\* raw values of an environment variable
EnvTexts == {<<>>, <<" ">>, <<"\f">>, <<"v">>}
\* exit codes of the selector process
FzfCodes == {0, 1, 130}
\* longest free name (FLOW_COMMAND_NAME, the name of [app]), in chunks
MaxName == 2
\* longest text the commit model returns, in chunks
MaxMsg == 4
\* deepest working directory, in directories below the root
MaxDepth == 3

(***************************************************************************)
(* Sequences and text.                                                     *)
(***************************************************************************)
SeqsUpTo(S, n) == UNION {[1..k -> S] : k \in 0..n}

Range(s) == {s[i] : i \in DOMAIN s}

\* ordered selections of distinct elements of S (the keys of a TOML table)
RECURSIVE Arrangements(_)
Arrangements(S) ==
  {<<>>} \cup UNION {{<<x>> \o t : t \in Arrangements(S \ {x})} : x \in S}

\* the characters String.prototype.trim strips: WhiteSpace and LineTerminator
\* of ECMAScript.  A character without an escape in a string of this module
\* is written by its code point: the chunk "U+00A0" is the one character
\* U+00A0.
Whitespace ==
  {" ", "\t", "\n", "\r", "\f", "U+000B", "U+00A0", "U+FEFF", "U+2028", "U+2029",
   "U+1680", "U+2000", "U+2001", "U+2002", "U+2003", "U+2004", "U+2005",
   "U+2006", "U+2007", "U+2008", "U+2009", "U+200A", "U+202F", "U+205F",
   "U+3000"}

\* String.prototype.trim on a text
RECURSIVE TrimStart(_)
TrimStart(t) ==
  IF t # <<>> /\ Head(t) \in Whitespace THEN TrimStart(Tail(t)) ELSE t

RECURSIVE TrimEnd(_)
TrimEnd(t) ==
  IF t # <<>> /\ t[Len(t)] \in Whitespace
    THEN TrimEnd(SubSeq(t, 1, Len(t) - 1))
    ELSE t

Trim(t) == TrimEnd(TrimStart(t))

\* String.prototype.split(sep) on a text: the pieces between the separators
RECURSIVE SplitOn(_, _)
SplitOn(t, sep) ==
  IF \A i \in DOMAIN t : t[i] # sep
    THEN <<t>>
    ELSE LET k == CHOOSE i \in DOMAIN t :
                    t[i] = sep /\ \A j \in 1..(i - 1) : t[j] # sep
         IN  <<SubSeq(t, 1, k - 1)>> \o SplitOn(SubSeq(t, k + 1, Len(t)), sep)

\* message.split(/\r?\n/): the lines, without the "\r" before a "\n"
SplitLines(message) ==
  LET pieces == SplitOn(message, "\n")
  IN  [i \in DOMAIN pieces |->
         IF i < Len(pieces) /\ pieces[i] # <<>> /\ pieces[i][Len(pieces[i])] = "\r"
           THEN SubSeq(pieces[i], 1, Len(pieces[i]) - 1)
           ELSE pieces[i]]

\* the string a text stands for
RECURSIVE Concat(_)
Concat(t) == IF t = <<>> THEN "" ELSE Head(t) \o Concat(Tail(t))

(***************************************************************************)
(* The configuration file 1f.toml, as loadOneFConfig returns it.           *)
(***************************************************************************)
ONE_F_CONFIG_FILENAME == "1f.toml"

\* cmds of a task: the i-th command of a task is the string "c<i>"
CmdName(i) == "c" \o ToString(i)

CmdList(n) == [i \in 1..n |-> CmdName(i)]

\* a [tasks.<name>] table; hasCmds = FALSE is a table without cmds
TaskConfigs ==
  [hasDesc : BOOLEAN, hasCmds : {TRUE}, cmds : {CmdList(n) : n \in 0..MaxCmds}]
    \cup [hasDesc : {FALSE}, hasCmds : {FALSE}, cmds : {<<>>}]

\* the usual task: one command, no description
PlainTask == [hasDesc |-> FALSE, hasCmds |-> TRUE, cmds |-> CmdList(1)]

\* a [secrets.<ENV>] table; required: "absent", "true", "false";
\* hasDefault = TRUE with default "" is `default = ""`
SecretConfigs ==
  [required : {"absent", "true", "false"}, hasDefault : {FALSE}, default : {""}]
    \cup [required : {"absent", "true", "false"}, hasDefault : {TRUE},
          default : {"", "d"}]

\* an optional text: [set, raw]
NoText == [set |-> FALSE, raw |-> <<>>]

SomeText(t) == [set |-> TRUE, raw |-> t]

\* the [app] table of 1f.toml: name, description and version are optional texts
NoApp == [present |-> FALSE, name |-> NoText, description |-> NoText, version |-> NoText]

MakeApp(name, description, version) ==
  [present |-> TRUE, name |-> name, description |-> description, version |-> version]

NoConfig ==
  [exists |-> FALSE, load |-> "ok", hasTasks |-> FALSE, tasks |-> <<>>,
   hasSecrets |-> FALSE, secrets |-> <<>>, app |-> NoApp]

\* a configuration with the tasks ts (name, config) and the secrets ss
MakeConfig(hasTasks, ts, hasSecrets, ss) ==
  [exists |-> TRUE, load |-> "ok", hasTasks |-> hasTasks, tasks |-> ts,
   hasSecrets |-> hasSecrets, secrets |-> ss, app |-> NoApp]

\* how loadOneFConfig rejects: readFile fails with an error other than
\* ENOENT (1f.toml is a directory, or cannot be read), parseToml throws, or
\* normalizeOneFConfig throws on a value that is not an object
LoadFailures == {"readFailed", "parseFailed", "notAnObject"}

\* a 1f.toml that loadOneFConfig cannot load
Unloadable(failure) == [NoConfig EXCEPT !.exists = TRUE, !.load = failure]

UnloadableConfigs == {Unloadable(failure) : failure \in LoadFailures}

\* the configuration cfg with the [app] table app
WithApp(cfg, app) == [cfg EXCEPT !.app = app]

\* config.tasks?.[name], as [found, task]
TaskOf(cfg, name) ==
  IF \E i \in DOMAIN cfg.tasks : cfg.tasks[i].name = name
    THEN [found |-> TRUE,
          task |-> (cfg.tasks[CHOOSE i \in DOMAIN cfg.tasks :
                                 cfg.tasks[i].name = name]).task]
    ELSE [found |-> FALSE, task |-> PlainTask]

(***************************************************************************)
(* The command registry and the command catalog.                           *)
(***************************************************************************)
\* the built-in commands, in the order main registers them
BuiltinNames ==
  <<"commit", "commitPush", "dbOpen", "dbClear", "update", "setup", "tasks",
    "test", "chat", "version">>

BuiltinDescription(name) ==
  CASE name \in {"commit", "commitPush"} ->
         "Generate a commit message with GPT-5 nano, create the commit, and push it"
    [] name = "dbOpen" -> "Open the project SQLite database in TablePlus"
    [] name = "dbClear" -> "Remove all data from the project SQLite database"
    [] name = "update" -> "Update dependencies (bun) and pull latest git changes"
    [] name = "setup" ->
         "Validate required secrets and run the setup task from 1f.toml"
    [] name = "tasks" -> "List tasks defined in 1f.toml"
    [] name = "test" ->
         "Fuzzy select a test file under tests/ then run bun --watch"
    [] name = "chat" -> "Open a ChatGPT-like TUI for quick requests"
    [] name = "version" -> "Print the current fast release"

\* what a registered handler runs: a built-in function of the program, or
\* runConfiguredTask(name, task) for a task of the configuration
BuiltinHandler(name) == [kind |-> "builtin", name |-> name, task |-> PlainTask]

TaskHandler(name, task) == [kind |-> "task", name |-> name, task |-> task]

\* commandCatalog and commandRegistry as the module creates them
InitialCommands ==
  [catalog |-> <<[name |-> "help", description |-> "Help about any command"]>>,
   registry |-> [n \in {} |-> BuiltinHandler(n)]]

\* registerCommand: a catalog entry is pushed and the registry entry is set
registerCommand(st, name, description, handler) ==
  [catalog |-> Append(st.catalog, [name |-> name, description |-> description]),
   registry |-> [n \in DOMAIN st.registry \cup {name} |->
                   IF n = name THEN handler ELSE st.registry[n]]]

\* the registerCommand calls of main for the built-ins, from the i-th on
RECURSIVE RegisterBuiltinsFrom(_, _)
RegisterBuiltinsFrom(st, i) ==
  IF i > Len(BuiltinNames)
    THEN st
    ELSE RegisterBuiltinsFrom(
           registerCommand(st, BuiltinNames[i],
                           BuiltinDescription(BuiltinNames[i]),
                           BuiltinHandler(BuiltinNames[i])),
           i + 1)

RegisterBuiltins == RegisterBuiltinsFrom(InitialCommands, 1)

\* taskConfig.desc ?? `Run ${taskName} task from 1f.toml`
TaskDescription(name, task) ==
  IF task.hasDesc
    THEN "desc of " \o name
    ELSE "Run " \o name \o " task from " \o ONE_F_CONFIG_FILENAME

\* RegisterTaskEntry without the commandRegistry.has(taskName) test
RegisterTaskEntryUnchecked(st, entry) ==
  registerCommand(st, entry.name, TaskDescription(entry.name, entry.task),
                  TaskHandler(entry.name, entry.task))

\* the body of the loop of registerConfigTasks for one entry of config.tasks
RegisterTaskEntry(st, entry) ==
  IF entry.name \in DOMAIN st.registry
    THEN st
    ELSE registerCommand(st, entry.name,
                         TaskDescription(entry.name, entry.task),
                         TaskHandler(entry.name, entry.task))

RECURSIVE RegisterTasksFrom(_, _, _)
RegisterTasksFrom(st, tasks, i) ==
  IF i > Len(tasks)
    THEN st
    ELSE RegisterTasksFrom(RegisterTaskEntry(st, tasks[i]), tasks, i + 1)

\* registerConfigTasks(config)
registerConfigTasks(st, cfg) ==
  IF ~cfg.exists \/ ~cfg.hasTasks
    THEN st
    ELSE RegisterTasksFrom(st, cfg.tasks, 1)

(***************************************************************************)
(* Help and the top-level flags.                                           *)
(***************************************************************************)
\* what the program prints (console.log, console.error), one record a call
\* or a block of calls
Line(kind, arg) == [kind |-> kind, arg |-> arg]

RootHelp == Line("rootHelp", "")

\* the names under "Available Commands:" in the text of printRootHelp
RootHelpCommands ==
  <<"help", "commit", "commitPush", "dbOpen", "dbClear", "update", "setup",
    "tasks", "test", "chat", "version">>

\* the names printCommandHelp has a case for
CommandsWithHelp == {"help"} \cup Range(BuiltinNames)

\* printCommandHelp(name): [printed, out]
printCommandHelp(name) ==
  IF name \in CommandsWithHelp
    THEN [printed |-> TRUE, out |-> <<Line("commandHelp", name)>>]
    ELSE [printed |-> FALSE, out |-> <<>>]

\* printCommandHelp(name) || printRootHelp()
CommandHelpOrRoot(name) ==
  IF printCommandHelp(name).printed
    THEN printCommandHelp(name).out
    ELSE <<RootHelp>>

HelpFlags == {"--help", "-h"}

\* handleTopLevel where `help <topic>` with a topic printCommandHelp does
\* not know is left to the registry
handleTopLevelTopicFallsThrough(args) ==
  IF Len(args) = 0 THEN [handled |-> TRUE, out |-> <<RootHelp>>]
  ELSE IF args[1] = "" THEN [handled |-> TRUE, out |-> <<RootHelp>>]
  ELSE IF args[1] \in {"--help", "-h", "h"}
    THEN [handled |-> TRUE, out |-> <<RootHelp>>]
  ELSE IF args[1] = "--version"
    THEN [handled |-> TRUE, out |-> <<Line("version", "")>>]
  ELSE IF args[1] = "help" /\ Len(args) = 1
    THEN [handled |-> TRUE, out |-> <<RootHelp>>]
  ELSE IF args[1] = "help" /\ args[2] = ""
    THEN [handled |-> TRUE, out |-> <<RootHelp>>]
  ELSE IF args[1] = "help" /\ printCommandHelp(args[2]).printed
    THEN [handled |-> TRUE, out |-> printCommandHelp(args[2]).out]
  ELSE IF Len(args) > 1 /\ args[Len(args)] \in HelpFlags
    THEN [handled |-> TRUE, out |-> CommandHelpOrRoot(args[1])]
  ELSE [handled |-> FALSE, out |-> <<>>]

\* handleTopLevel(args): [handled, out]
handleTopLevel(args) ==
  IF Len(args) = 0 THEN [handled |-> TRUE, out |-> <<RootHelp>>]
  ELSE IF args[1] = "" THEN [handled |-> TRUE, out |-> <<RootHelp>>]
  ELSE IF args[1] \in {"--help", "-h", "h"}
    THEN [handled |-> TRUE, out |-> <<RootHelp>>]
  ELSE IF args[1] = "--version"
    THEN [handled |-> TRUE, out |-> <<Line("version", "")>>]
  ELSE IF args[1] = "help"
    THEN IF Len(args) = 1 THEN [handled |-> TRUE, out |-> <<RootHelp>>]
         ELSE IF args[2] = "" THEN [handled |-> TRUE, out |-> <<RootHelp>>]
         ELSE IF printCommandHelp(args[2]).printed
           THEN [handled |-> TRUE, out |-> printCommandHelp(args[2]).out]
         ELSE [handled |-> TRUE, out |-> <<Line("unknownHelpTopic", args[2])>>]
  ELSE IF Len(args) > 1 /\ args[Len(args)] \in HelpFlags
    THEN [handled |-> TRUE, out |-> CommandHelpOrRoot(args[1])]
  ELSE [handled |-> FALSE, out |-> <<>>]

(***************************************************************************)
(* Secrets.                                                                *)
(***************************************************************************)
\* process.env[key]: [set, raw]; lookupNonEmptyEnv(key): [defined, value]
lookupNonEmptyEnv(environment, key) ==
  IF key \notin DOMAIN environment \/ ~environment[key].set
       \/ environment[key].raw = <<>>
    THEN [defined |-> FALSE, value |-> <<>>]
    ELSE IF Len(Trim(environment[key].raw)) > 0
      THEN [defined |-> TRUE, value |-> Trim(environment[key].raw)]
      ELSE [defined |-> FALSE, value |-> <<>>]

\* SecretOutcome with `if (secretConfig.default)` for the test of the default
SecretOutcomeTruthyDefault(environment, entry) ==
  IF lookupNonEmptyEnv(environment, entry.name).defined
    THEN [line |-> Line("set", entry.name), missing |-> FALSE]
  ELSE IF entry.secret.required = "true"
    THEN IF entry.secret.hasDefault /\ entry.secret.default # ""
           THEN [line |-> Line("defaultUsed", entry.name), missing |-> FALSE]
           ELSE [line |-> Line("required", entry.name), missing |-> TRUE]
  ELSE [line |-> Line("optional", entry.name), missing |-> FALSE]

\* the body of the loop of validateSecrets for one secret: the line pushed
\* and whether the name is pushed to missing
SecretOutcome(environment, entry) ==
  IF lookupNonEmptyEnv(environment, entry.name).defined
    THEN [line |-> Line("set", entry.name), missing |-> FALSE]
  ELSE IF entry.secret.required = "true"
    THEN IF entry.secret.hasDefault
           THEN [line |-> Line("defaultUsed", entry.name), missing |-> FALSE]
           ELSE [line |-> Line("required", entry.name), missing |-> TRUE]
  ELSE [line |-> Line("optional", entry.name), missing |-> FALSE]

RECURSIVE ValidateFrom(_, _, _, _)
ValidateFrom(environment, secrets, i, acc) ==
  IF i > Len(secrets)
    THEN acc
    ELSE LET o == SecretOutcome(environment, secrets[i])
         IN  ValidateFrom(environment, secrets, i + 1,
               [lines |-> Append(acc.lines, o.line),
                missing |-> IF o.missing
                              THEN Append(acc.missing, secrets[i].name)
                              ELSE acc.missing])

\* validateSecrets(config): [lines, missing]
validateSecrets(environment, cfg) ==
  IF ~cfg.hasSecrets \/ Len(cfg.secrets) = 0
    THEN [lines |-> <<Line("noSecrets", "")>>, missing |-> <<>>]
    ELSE ValidateFrom(environment, cfg.secrets, 1,
                      [lines |-> <<>>, missing |-> <<>>])

(***************************************************************************)
(* The palette: what the close handler of the selector makes of its output.*)
(***************************************************************************)
PaletteCommand(a) == [kind |-> "command", args |-> a, code |-> 0]
PaletteCancel(c) == [kind |-> "cancel", args |-> <<>>, code |-> c]
PaletteFallback == [kind |-> "fallback", args |-> <<>>, code |-> 0]
PalettePending == [kind |-> "pending", args |-> <<>>, code |-> 0]

\* stdout.split(/\r?\n/).find((line) => line.trim().length > 0)
FirstNonBlankLine(stdout) ==
  LET lines == SplitLines(stdout)
      hits == {i \in DOMAIN lines : Len(Trim(lines[i])) > 0}
  IN  IF hits = {}
        THEN [found |-> FALSE, line |-> <<>>]
        ELSE [found |-> TRUE,
              line |-> lines[CHOOSE i \in hits : \A j \in hits : i <= j]]

\* firstLine.split("\t")[0]?.trim()
SelectionOf(line) == Trim(SplitOn(line, "\t")[1])

\* child.on("close", (code) => ...): closed with an exit code, or killed by
\* a signal (code === null)
PaletteOnClose(signalled, code, stdout) ==
  IF ~signalled /\ code = 0
    THEN IF ~FirstNonBlankLine(stdout).found
           THEN PaletteFallback
         ELSE IF SelectionOf(FirstNonBlankLine(stdout).line) = <<>>
           THEN PaletteFallback
         ELSE PaletteCommand(
                <<Concat(SelectionOf(FirstNonBlankLine(stdout).line))>>)
    ELSE PaletteCancel(IF signalled THEN 1 ELSE code)

(***************************************************************************)
(* The identity of the command: its name, its summary and the version it   *)
(* reports.  A path is a text whose chunks are "/", "." or a run of other  *)
(* characters; no run is a prefix of another one.                          *)
(***************************************************************************)
FLOW_VERSION == "1.0.0"

DEFAULT_COMMAND_NAME == "fast"

DEFAULT_SUMMARY == "fast is CLI to move faster in software projects"

\* the text of `${name} is CLI to move faster in software projects`
SummaryFor(name) == name \o " is CLI to move faster in software projects"

RECURSIVE StripTrailingSlashes(_)
StripTrailingSlashes(t) ==
  IF t # <<>> /\ t[Len(t)] = "/"
    THEN StripTrailingSlashes(SubSeq(t, 1, Len(t) - 1))
    ELSE t

\* path.basename(p): the last component of p, without trailing slashes
PathBasename(p) ==
  LET s == StripTrailingSlashes(p)
      slashes == {i \in DOMAIN s : s[i] = "/"}
  IN  IF slashes = {} THEN s
      ELSE SubSeq(s, (CHOOSE i \in slashes : \A j \in slashes : j <= i) + 1, Len(s))

\* path.extname(p): from the last "." of the last component to its end; empty
\* when there is no ".", when the "." starts the component, and for ".."
PathExtname(p) ==
  LET b == PathBasename(p)
      dots == {i \in DOMAIN b : b[i] = "."}
      last == CHOOSE i \in dots : \A j \in dots : j <= i
  IN  IF dots = {} THEN <<>>
      ELSE IF last = 1 THEN <<>>
      ELSE IF b = <<".", ".">> THEN <<>>
      ELSE SubSeq(b, last, Len(b))

\* String.prototype.replace(pattern, ""): the first occurrence is removed
ReplaceFirst(t, pattern) ==
  LET n == Len(pattern)
      at == {i \in 1..(Len(t) - n + 1) : SubSeq(t, i, i + n - 1) = pattern}
  IN  IF n = 0 \/ at = {} THEN t
      ELSE LET k == CHOOSE i \in at : \A j \in at : i <= j
           IN  SubSeq(t, 1, k - 1) \o SubSeq(t, k + n, Len(t))

\* the name applyCommandIdentity derives from a trimmed, non-empty candidate
BaseName(trimmed) ==
  LET base == ReplaceFirst(PathBasename(trimmed), PathExtname(trimmed))
  IN  IF base # <<>> THEN Concat(base) ELSE Concat(trimmed)

\* applyCommandIdentity(candidate, summaryLocked) on the identity
\* id = [commandName, commandSummary, reportedVersion]
applyCommandIdentity(id, candidate, summaryLocked) ==
  IF ~candidate.set \/ candidate.raw = <<>> THEN id
  ELSE IF Trim(candidate.raw) = <<>> THEN id
  ELSE LET base == BaseName(Trim(candidate.raw))
       IN  [id EXCEPT !.commandName = base,
                      !.commandSummary =
                         IF summaryLocked THEN @ ELSE SummaryFor(base)]

\* the identity of the loaded module
DefaultIdentity ==
  [commandName |-> DEFAULT_COMMAND_NAME, commandSummary |-> DEFAULT_SUMMARY,
   reportedVersion |-> FLOW_VERSION]

\* configureCommandIdentity(): [id, locks], from process.env and process.argv[1]
configureCommandIdentity(environment, scriptPath) ==
  LET summary == lookupNonEmptyEnv(environment, "FLOW_COMMAND_SUMMARY")
      summaryLocked == summary.defined
      id1 == IF summary.defined
               THEN [DefaultIdentity EXCEPT !.commandSummary = Concat(summary.value)]
               ELSE DefaultIdentity
      name == lookupNonEmptyEnv(environment, "FLOW_COMMAND_NAME")
  IN  IF name.defined
        THEN [id |-> applyCommandIdentity(id1, SomeText(name.value), summaryLocked),
              locks |-> [nameLocked |-> TRUE, summaryLocked |-> summaryLocked]]
        ELSE [id |-> applyCommandIdentity(
                       id1,
                       IF scriptPath.set THEN scriptPath
                                         ELSE SomeText(<<DEFAULT_COMMAND_NAME>>),
                       summaryLocked),
              locks |-> [nameLocked |-> FALSE, summaryLocked |-> summaryLocked]]

\* `typeof v === "string" ? v.trim() : undefined`, then the test `if (v)`
TrimmedOption(v) == v.set /\ Trim(v.raw) # <<>>

\* applyAppMetadata with the name of [app] applied whatever the locks say
applyAppMetadataUnlocked(id, app, locks) ==
  IF ~app.present THEN id
  ELSE
    LET hasName == TrimmedOption(app.name)
        hasDescription == TrimmedOption(app.description)
        id1 == IF hasName
                 THEN applyCommandIdentity(id, SomeText(Trim(app.name.raw)),
                                           locks.summaryLocked \/ hasDescription)
                 ELSE id
        id2 == IF locks.summaryLocked THEN id1
               ELSE IF hasDescription
                 THEN [id1 EXCEPT !.commandSummary = Concat(Trim(app.description.raw))]
               ELSE IF hasName
                 THEN [id1 EXCEPT !.commandSummary =
                                     SummaryFor(Concat(Trim(app.name.raw)))]
               ELSE id1
    IN  IF TrimmedOption(app.version)
          THEN [id2 EXCEPT !.reportedVersion = Concat(Trim(app.version.raw))]
          ELSE id2

\* applyAppMetadata(app, locks) on the identity
applyAppMetadata(id, app, locks) ==
  IF ~app.present THEN id
  ELSE
    LET hasName == TrimmedOption(app.name)
        hasDescription == TrimmedOption(app.description)
        id1 == IF hasName /\ ~locks.nameLocked
                 THEN applyCommandIdentity(id, SomeText(Trim(app.name.raw)),
                                           locks.summaryLocked \/ hasDescription)
                 ELSE id
        id2 == IF locks.summaryLocked THEN id1
               ELSE IF hasDescription
                 THEN [id1 EXCEPT !.commandSummary = Concat(Trim(app.description.raw))]
               ELSE IF hasName
                 THEN [id1 EXCEPT !.commandSummary =
                                     SummaryFor(Concat(Trim(app.name.raw)))]
               ELSE id1
    IN  IF TrimmedOption(app.version)
          THEN [id2 EXCEPT !.reportedVersion = Concat(Trim(app.version.raw))]
          ELSE id2

(***************************************************************************)
(* The commit message: the text the model returned, without its wrapping   *)
(* quotes, split into the paragraphs `git commit` gets.  A message is a    *)
(* text whose chunks are a quote character, a whitespace character or a    *)
(* run of other characters.                                                *)
(***************************************************************************)
QuoteChars == {"\"", "'"}

\* trimMatchingQuotes for any two quote characters around the text
trimAnyQuotes(input) ==
  IF Len(input) >= 2 /\ input[1] \in QuoteChars /\ input[Len(input)] \in QuoteChars
    THEN SubSeq(input, 2, Len(input) - 1)
    ELSE input

\* trimMatchingQuotes(input)
trimMatchingQuotes(input) ==
  IF Len(input) >= 2 /\ input[1] \in QuoteChars /\ input[Len(input)] = input[1]
    THEN SubSeq(input, 2, Len(input) - 1)
    ELSE input

\* line.replace(/[\t ]+$/, "")
RECURSIVE StripTrailingBlanks(_)
StripTrailingBlanks(line) ==
  IF line # <<>> /\ line[Len(line)] \in {"\t", " "}
    THEN StripTrailingBlanks(SubSeq(line, 1, Len(line) - 1))
    ELSE line

\* lines.join("\n")
RECURSIVE JoinLines(_)
JoinLines(lines) ==
  IF lines = <<>> THEN <<>>
  ELSE IF Len(lines) = 1 THEN lines[1]
  ELSE lines[1] \o <<"\n">> \o JoinLines(Tail(lines))

\* the loop of splitCommitMessageParagraphs from line i on, with the
\* paragraphs pushed so far and the lines of the current one
RECURSIVE ParagraphsFrom(_, _, _, _)
ParagraphsFrom(lines, i, paragraphs, current) ==
  IF i > Len(lines)
    THEN IF current # <<>>
           THEN Append(paragraphs, TrimEnd(JoinLines(current)))
           ELSE paragraphs
  ELSE IF Trim(lines[i]) = <<>>
    THEN IF current # <<>>
           THEN ParagraphsFrom(lines, i + 1,
                               Append(paragraphs, TrimEnd(JoinLines(current))), <<>>)
           ELSE ParagraphsFrom(lines, i + 1, paragraphs, current)
  ELSE ParagraphsFrom(lines, i + 1, paragraphs,
                      Append(current, StripTrailingBlanks(lines[i])))

\* splitCommitMessageParagraphs(message)
splitCommitMessageParagraphs(message) ==
  ParagraphsFrom(SplitLines(message), 1, <<>>, <<>>)

\* the arguments commitWithPayload gives git: commit, then -m and a
\* paragraph for every paragraph
RECURSIVE CommitArguments(_)
CommitArguments(paragraphs) ==
  IF paragraphs = <<>> THEN <<"commit">>
  ELSE <<"commit", "-m", Concat(Head(paragraphs))>>
         \o Tail(CommitArguments(Tail(paragraphs)))

\* the result of generateCommitMessage for the text the model returned:
\* [ok, message]
GeneratedMessage(text) ==
  [ok |-> Trim(text) # <<>>, message |-> Trim(text)]

\* FormatCommit that lets a message without paragraphs through
FormatCommitUnchecked(message) ==
  LET trimmedMessage == trimMatchingQuotes(Trim(message))
  IN  [ok |-> TRUE, error |-> "", message |-> trimmedMessage,
       paragraphs |-> splitCommitMessageParagraphs(trimmedMessage)]

\* what prepareCommit makes of the generated message: [ok, error, message,
\* paragraphs]
FormatCommit(message) ==
  LET trimmedMessage == trimMatchingQuotes(Trim(message))
      paragraphs == splitCommitMessageParagraphs(trimmedMessage)
  IN  IF trimmedMessage = <<>>
        THEN [ok |-> FALSE, error |-> "emptyMessage", message |-> <<>>,
              paragraphs |-> <<>>]
      ELSE IF paragraphs = <<>>
        THEN [ok |-> FALSE, error |-> "emptyAfterFormatting",
              message |-> trimmedMessage, paragraphs |-> <<>>]
      ELSE [ok |-> TRUE, error |-> "", message |-> trimmedMessage,
            paragraphs |-> paragraphs]

(***************************************************************************)
(* The state of one run of the program.                                    *)
(***************************************************************************)
VARIABLES
  config,           \* what loadOneFConfig returns (the 1f.toml of the run)
  argv,             \* process.argv.slice(2)
  scriptPath,       \* process.argv[1]
  flowEnv,          \* process.env, for FLOW_COMMAND_NAME, FLOW_COMMAND_SUMMARY
                    \* and OPENAI_API_KEY
  env,              \* process.env, for the declared secrets
  stdinTTY,         \* process.stdin.isTTY
  stdoutTTY,        \* process.stdout.isTTY
  hasFzf,           \* commandExists("fzf")
  pc,               \* where main is
  args,             \* the local args of main
  commandCatalog,   \* the module's commandCatalog
  commandRegistry,  \* the module's commandRegistry
  out,              \* what was printed, in order
  telemetry,        \* the events handed to trackTelemetry, in order
  exit,             \* how the process ended: [how, code]
  invoked,          \* the names of the registered handlers main has called
  spawned,          \* the child processes spawned, in order: [prog, task, command, state]
  paletteResult,    \* the promise selectCommandArgs returns
  resolveCalls,     \* the calls of that promise's resolve
  selector,         \* what settled that promise: [cause, signalled, code, stdout]
  current,          \* the handler main awaits
  run,              \* the runConfiguredTask in progress: [name, cmds, index]
  secretResults,    \* the result of validateSecrets in runSetup: [validated, lines, missing]
  result,           \* how the awaited handler settled: [settled, ok, error]
  commandName,      \* the module's commandName
  commandSummary,   \* the module's commandSummary
  reportedVersion,  \* the module's reportedVersion
  identityLocks,    \* the identityLocks of main: [nameLocked, summaryLocked]
  stagedDiff,       \* the diff of prepareCommit: [captured, text]
  reply,            \* the text the commit model returned: [received, text]
  payload,          \* the payload prepareCommit returned: [ready, message, paragraphs]
  commitArgs,       \* the arguments commitWithPayload gave git
  prompt,           \* what generateCommitMessage was given and the prompt it
                    \* built: [sent, truncatedDiff, truncated, text]
  cwd,              \* process.cwd(), as its depth below the root directory
  blade,            \* what fs.stat says of the database path in the directory
                    \* at each depth from the root (0) to cwd
  dir,              \* the dir of locateBladeDatabase, as a depth
  located,          \* the walk of locateBladeDatabase: [status, at, visited]
  testsDir,         \* tests/ under process.cwd(): [stat, files]
  selected,         \* the selected of runTestWatch
  paletteInput,     \* the lines written to the standard input of the palette's
                    \* selector: [name, description]
  telemetryDebug,   \* TELEMETRY_DEBUG_ENABLED
  loggerAvailable,  \* whether ensureCreateLogger and createLogger succeed
  telemetryLogger,  \* the module's telemetryLogger is defined
  telemetryNoticeShown, \* the module's telemetryNoticeShown
  sent,             \* the events handed to the logger, in order
  pending,          \* the positions in sent of the emissions not settled yet
  failures,         \* for every call of handleTelemetryFailure, the number of
                    \* events handed to the logger before it
  dbTables,         \* the names of the tables in sqlite_master of the database,
                    \* in the order of the table
  tables,           \* the tables of clearSQLiteDatabase: [listed, names]
  scripts,          \* the calls of runSqliteScript, in order: [script, outcome]
  view,             \* the state of ChatApp with every update made so far
                    \* applied: [mounted, messages, input, isSending, statusLine]
  rendered,         \* the state the last render of ChatApp saw, which its
                    \* closures and messagesRef, inputRef hold:
                    \* [messages, input, isSending]
  nextId,           \* nextIdRef.current
  requests          \* the calls of requestCompletion, in order:
                    \* [assistant, prompt, history, state]

vars ==
  <<config, argv, env, stdinTTY, stdoutTTY, hasFzf, pc, args, commandCatalog,
    commandRegistry, out, telemetry, exit, invoked, spawned, paletteResult,
    resolveCalls, selector, current, run, secretResults, result, scriptPath,
    flowEnv, commandName, commandSummary, reportedVersion, identityLocks,
    stagedDiff, reply, payload, commitArgs, prompt, cwd, blade, dir, located,
    testsDir, selected, paletteInput, telemetryDebug, loggerAvailable,
    telemetryLogger, telemetryNoticeShown, sent, pending, failures, dbTables,
    tables, scripts, view, rendered, nextId, requests>>

inputs ==
  <<config, argv, env, stdinTTY, stdoutTTY, hasFzf, scriptPath, flowEnv, cwd, blade,
    testsDir, telemetryDebug, loggerAvailable, dbTables>>

identity == <<commandName, commandSummary, reportedVersion, identityLocks>>

commitState == <<stagedDiff, reply, payload, commitArgs, prompt>>

walk == <<dir, located>>

telemetryState == <<telemetryLogger, telemetryNoticeShown, sent, pending, failures>>

sqlite == <<tables, scripts>>

chatState == <<view, rendered, nextId, requests>>

(***************************************************************************)
(* The inputs of a run.                                                    *)
(***************************************************************************)
\* the task tables with the names in a, every task the usual one
PlainTasks(a) == [i \in DOMAIN a |-> [name |-> a[i], task |-> PlainTask]]

\* the same, with the task at position k replaced by t
TasksWith(a, k, t) ==
  [i \in DOMAIN a |-> [name |-> a[i], task |-> IF i = k THEN t ELSE PlainTask]]

\* no 1f.toml, a 1f.toml without [tasks], or one with usual tasks
PlainConfigs ==
  {NoConfig, MakeConfig(FALSE, <<>>, FALSE, <<>>)}
    \cup {MakeConfig(TRUE, PlainTasks(a), FALSE, <<>>) : a \in Arrangements(TaskNames)}

\* a 1f.toml where one task has any cmds and desc
VariedTaskConfigs ==
  UNION {UNION {{MakeConfig(TRUE, TasksWith(a, k, t), FALSE, <<>>) : t \in TaskConfigs}
                 : k \in DOMAIN a}
          : a \in Arrangements(TaskNames)}

\* the [secrets.*] tables
SecretTables ==
  UNION {{[i \in DOMAIN a |-> [name |-> a[i], secret |-> f[i]]]
            : f \in [DOMAIN a -> SecretConfigs]}
          : a \in Arrangements(SecretNames)}

\* the setup task of a 1f.toml: none, or any cmds
SetupTasks ==
  {<<>>} \cup {<<[name |-> "setup", task |-> t]>> : t \in {c \in TaskConfigs : ~c.hasDesc}}

\* a 1f.toml with secrets and maybe a setup task
SecretConfigFiles ==
  {MakeConfig(ts # <<>>, ts, TRUE, ss) : ts \in SetupTasks, ss \in SecretTables}
    \cup {MakeConfig(ts # <<>>, ts, FALSE, <<>>) : ts \in SetupTasks}

\* process.env for the secrets: unset, or set to a text
Environments ==
  [SecretNames -> [set : {FALSE}, raw : {<<>>}] \cup [set : {TRUE}, raw : EnvTexts]]

NoEnvironment == [n \in SecretNames |-> [set |-> FALSE, raw |-> <<>>]]

\* the non-empty argument vectors
ArgVectors == {<<h>> \o r : h \in ArgHeads, r \in SeqsUpTo(ArgRest, MaxArgs - 1)}

NoError == [kind |-> "none", name |-> "", list |-> <<>>]

Error(kind, name, list) == [kind |-> kind, name |-> name, list |-> list]

\* the selector has settled nothing yet
NoSelector == [cause |-> "none", signalled |-> FALSE, code |-> 0, stdout |-> <<>>]

Settler(cause, signalled, code, stdout) ==
  [cause |-> cause, signalled |-> signalled, code |-> code, stdout |-> stdout]

NoRun == [name |-> "", cmds |-> <<>>, index |-> 0]

NoPayload == [ready |-> FALSE, message |-> <<>>, paragraphs |-> <<>>]

\* generateCommitMessage has not been called
NoPrompt ==
  [sent |-> FALSE, truncatedDiff |-> <<>>, truncated |-> FALSE, text |-> <<>>]

\* startChatInterface has not rendered ChatApp
NotMounted ==
  [mounted |-> FALSE, messages |-> <<>>, input |-> <<>>, isSending |-> FALSE,
   statusLine |-> ""]

\* listSQLiteTables has not returned
NotListed == [listed |-> FALSE, names |-> <<>>]

\* the run has no database to clear
NoDatabase == dbTables = <<>>

\* locateBladeDatabase has not been called
NotLocated == [status |-> "idle", at |-> 0, visited |-> <<>>]

\* the state of the module once loaded, before main runs
Loaded ==
  /\ pc = "start"
  /\ args = <<>>
  /\ commandCatalog = InitialCommands.catalog
  /\ commandRegistry = InitialCommands.registry
  /\ out = <<>>
  /\ telemetry = <<>>
  /\ exit = [how |-> "running", code |-> 0]
  /\ invoked = <<>>
  /\ spawned = <<>>
  /\ paletteResult = PalettePending
  /\ resolveCalls = 0
  /\ selector = NoSelector
  /\ current = BuiltinHandler("")
  /\ run = NoRun
  /\ secretResults = [validated |-> FALSE, lines |-> <<>>, missing |-> <<>>]
  /\ result = [settled |-> FALSE, ok |-> FALSE, error |-> NoError]
  /\ commandName = DefaultIdentity.commandName
  /\ commandSummary = DefaultIdentity.commandSummary
  /\ reportedVersion = DefaultIdentity.reportedVersion
  /\ identityLocks = [nameLocked |-> FALSE, summaryLocked |-> FALSE]
  /\ stagedDiff = [captured |-> FALSE, text |-> <<>>]
  /\ reply = [received |-> FALSE, text |-> <<>>]
  /\ payload = NoPayload
  /\ commitArgs = <<>>
  /\ prompt = NoPrompt
  /\ dir = 0
  /\ located = NotLocated
  /\ selected = ""
  /\ paletteInput = <<>>
  /\ telemetryLogger = FALSE
  /\ telemetryNoticeShown = FALSE
  /\ sent = <<>>
  /\ pending = {}
  /\ failures = <<>>
  /\ tables = NotListed
  /\ scripts = <<>>
  /\ view = NotMounted
  /\ rendered = [messages |-> <<>>, input |-> <<>>, isSending |-> FALSE]
  /\ nextId = 1
  /\ requests = <<>>

\* FLOW_COMMAND_NAME and FLOW_COMMAND_SUMMARY unset
NoFlowEnv ==
  [k \in {"FLOW_COMMAND_NAME", "FLOW_COMMAND_SUMMARY"} |-> NoText]

\* the program run as `fast`, with no identity in the environment
UsualIdentity ==
  /\ scriptPath = SomeText(<<"/", "bin", "/", "fast">>)
  /\ flowEnv = NoFlowEnv

\* the program run in the root directory, without a database
NoProject ==
  /\ telemetryDebug = FALSE
  /\ loggerAvailable = TRUE
  /\ NoDatabase
  /\ cwd = 0
  /\ blade = [d \in 0..0 |-> "ENOENT"]
  /\ testsDir = [stat |-> "ENOENT", files |-> <<>>]

\* a command line with arguments, any usual configuration
InitDispatch ==
  /\ config \in PlainConfigs \cup UnloadableConfigs
  /\ argv \in ArgVectors
  /\ env = NoEnvironment
  /\ UsualIdentity
  /\ NoProject
  /\ stdinTTY = TRUE /\ stdoutTTY = TRUE /\ hasFzf = TRUE

\* no arguments: the palette, on any terminal
InitPalette ==
  /\ config \in PlainConfigs \cup UnloadableConfigs
  /\ argv = <<>>
  /\ env = NoEnvironment
  /\ UsualIdentity
  /\ NoProject
  /\ stdinTTY \in BOOLEAN /\ stdoutTTY \in BOOLEAN /\ hasFzf \in BOOLEAN

\* a task of the configuration, with any cmds, named on the command line
InitTask ==
  /\ config \in VariedTaskConfigs
  /\ argv \in {<<n>> : n \in TaskNames}
  /\ env = NoEnvironment
  /\ UsualIdentity
  /\ NoProject
  /\ stdinTTY = TRUE /\ stdoutTTY = TRUE /\ hasFzf = TRUE

\* `fast setup` with any secrets, environment and setup task
InitSetup ==
  /\ config \in SecretConfigFiles
  /\ argv = <<"setup">>
  /\ env \in Environments
  /\ UsualIdentity
  /\ NoProject
  /\ stdinTTY = TRUE /\ stdoutTTY = TRUE /\ hasFzf = TRUE

Init == Loaded /\ (InitDispatch \/ InitPalette \/ InitTask \/ InitSetup)

(***************************************************************************)
(* main: startup.                                                          *)
(***************************************************************************)
Event(name, command) == [event |-> name, command |-> command]

Returned == [how |-> "returned", code |-> 0]

\* process.exit(code)
Exited(code) == [how |-> "exit", code |-> code]

Settled(ok, error) == [settled |-> TRUE, ok |-> ok, error |-> error]

(***************************************************************************)
(* Telemetry.  t is [logger, noticeShown, sent, pending, failures, out].   *)
(***************************************************************************)
Telemetry ==
  [logger |-> telemetryLogger, noticeShown |-> telemetryNoticeShown,
   sent |-> sent, pending |-> pending, failures |-> failures, out |-> out]

\* the module's telemetry after the calls that made t of it
SetTelemetry(t) ==
  /\ telemetryLogger' = t.logger
  /\ telemetryNoticeShown' = t.noticeShown
  /\ sent' = t.sent
  /\ pending' = t.pending
  /\ failures' = t.failures
  /\ out' = t.out

\* trackTelemetry(level, event, fields): nothing without a logger; else the
\* event is handed to the logger and its promise is pending
trackTelemetry(t, event) ==
  IF ~t.logger THEN t
  ELSE [t EXCEPT !.sent = Append(@, event),
                 !.pending = @ \cup {Len(t.sent) + 1}]

RECURSIVE TrackAll(_, _)
TrackAll(t, events) ==
  IF events = <<>> THEN t
  ELSE TrackAll(trackTelemetry(t, Head(events)), Tail(events))

\* handleTelemetryFailure that leaves the logger in place
handleTelemetryFailureKeepsLogger(t, debug) ==
  [t EXCEPT !.out = IF debug /\ ~t.noticeShown
                      THEN Append(@, Line("telemetryDisabled", "")) ELSE @,
            !.noticeShown = IF debug /\ ~t.noticeShown THEN TRUE ELSE @,
            !.failures = Append(@, Len(t.sent))]

\* handleTelemetryFailure(error)
handleTelemetryFailure(t, debug) ==
  [t EXCEPT !.out = IF debug /\ ~t.noticeShown
                      THEN Append(@, Line("telemetryDisabled", "")) ELSE @,
            !.noticeShown = IF debug /\ ~t.noticeShown THEN TRUE ELSE @,
            !.logger = FALSE,
            !.failures = Append(@, Len(t.sent))]

\* initializeTelemetry(): the logger is created, or the failure is handled
initializeTelemetry(t, available, debug) ==
  IF available THEN [t EXCEPT !.logger = TRUE]
               ELSE handleTelemetryFailure(t, debug)

\* SettleEvents with command_success tracked before the outcome is known
SettleEventsBoth(ok, name) ==
  IF ok THEN <<Event("command_success", name)>>
        ELSE <<Event("command_success", name), Event("command_failure", name)>>

\* the events executeCommandWithTelemetry tracks once the handler settled
SettleEvents(ok, name) ==
  IF ok THEN <<Event("command_success", name)>>
        ELSE <<Event("command_failure", name)>>

\* main up to its first await (of initializeTelemetry, which awaits
\* ensureCreateLogger): configureCommandIdentity has run
Startup ==
  /\ pc = "start"
  /\ LET configured == configureCommandIdentity(flowEnv, scriptPath)
     IN  /\ identityLocks' = configured.locks
         /\ commandName' = configured.id.commandName
         /\ commandSummary' = configured.id.commandSummary
         /\ reportedVersion' = configured.id.reportedVersion
  /\ pc' = "telemetry"
  /\ UNCHANGED <<inputs, sqlite, chatState, telemetryState, paletteInput, selected, walk,
                 commitState, args, commandCatalog, commandRegistry, out, telemetry,
                 exit, invoked, spawned, paletteResult, resolveCalls, selector,
                 current, run, secretResults, result>>

\* initializeTelemetry once ensureCreateLogger settled, and main up to its
\* next await (of loadOneFConfig): cli_invocation is tracked and the
\* built-ins are registered
TelemetryInitialized ==
  /\ pc = "telemetry"
  /\ telemetry' = Append(telemetry, Event("cli_invocation", ""))
  /\ SetTelemetry(trackTelemetry(
                    initializeTelemetry(Telemetry, loggerAvailable, telemetryDebug),
                    Event("cli_invocation", "")))
  /\ LET st == RegisterBuiltinsFrom(
                 [catalog |-> commandCatalog, registry |-> commandRegistry], 1)
     IN  /\ commandCatalog' = st.catalog
         /\ commandRegistry' = st.registry
  /\ pc' = "config"
  /\ UNCHANGED <<inputs, sqlite, chatState, paletteInput, selected, walk, commitState,
                 identity, args, exit, invoked, spawned, paletteResult, resolveCalls,
                 selector, current, run, secretResults, result>>

\* main once loadOneFConfig settled.  When it returned (the configuration,
\* or null without a 1f.toml) the [app] table is applied, the tasks of the
\* configuration are registered and the arguments are read: with arguments
\* main runs on without an await through the dispatch (pc = "dispatch") to
\* the first await of the handler it calls; without, through
\* selectCommandArgs (pc = "select") to its first await.  When it rejected,
\* main rejects, the arguments are never read, and the catch on main()
\* prints the message of the error and calls process.exit(1)
ConfigLoaded ==
  /\ pc = "config"
  /\ IF config.load = "ok"
       THEN /\ LET st == registerConfigTasks(
                           [catalog |-> commandCatalog, registry |-> commandRegistry],
                           config)
               IN  /\ commandCatalog' = st.catalog
                   /\ commandRegistry' = st.registry
            /\ LET id == applyAppMetadata(
                           [commandName |-> commandName,
                            commandSummary |-> commandSummary,
                            reportedVersion |-> reportedVersion],
                           config.app, identityLocks)
               IN  /\ commandName' = id.commandName
                   /\ commandSummary' = id.commandSummary
                   /\ reportedVersion' = id.reportedVersion
            /\ args' = argv
            /\ pc' = IF Len(argv) = 0 THEN "select" ELSE "dispatch"
            /\ UNCHANGED <<out, exit>>
       ELSE /\ out' = Append(out, Line("error", config.load))
            /\ exit' = Exited(1)
            /\ pc' = "done"
            /\ UNCHANGED <<commandCatalog, commandRegistry, commandName,
                           commandSummary, reportedVersion, args>>
  /\ UNCHANGED <<inputs, sqlite, chatState, telemetryState, paletteInput, selected, walk,
                 commitState, identityLocks, telemetry, invoked, spawned,
                 paletteResult, resolveCalls, selector, current, run, secretResults,
                 result>>

(***************************************************************************)
(* The palette.                                                            *)
(***************************************************************************)
Child(prog, task, command, state) ==
  [prog |-> prog, task |-> task, command |-> command, state |-> state]

\* PaletteAttempted with one interactive stream being enough
PaletteAttemptedOnEither(inTTY, outTTY) == inTTY \/ outTTY

\* the palette is tried only on an interactive terminal
PaletteAttempted(inTTY, outTTY) == ~(~inTTY \/ ~outTTY)

\* resolve(value) of the promise of selectCommandArgs: the first call settles it
Resolve(value, by) ==
  /\ paletteResult' = IF paletteResult.kind = "pending" THEN value ELSE paletteResult
  /\ selector' = IF paletteResult.kind = "pending" THEN by ELSE selector
  /\ resolveCalls' = resolveCalls + 1

\* the lines selectCommandArgs writes to the selector: `${entry.name}\t
\* ${entry.description}\n` for every entry of the catalog
PaletteLines(catalog) ==
  [i \in DOMAIN catalog |->
     [name |-> catalog[i].name, description |-> catalog[i].description]]

FzfStates == {spawned[i].state : i \in {j \in DOMAIN spawned : spawned[j].prog = "fzf"}}

\* the child spawned last ends, or fails to start
SetLastState(state) ==
  [spawned EXCEPT ![Len(spawned)] = [@ EXCEPT !.state = state]]

\* selectCommandArgs up to its first await: it returns the fallback off a
\* terminal, else commandExists("fzf") spawns `which fzf`
SelectCommandArgs ==
  /\ pc = "select"
  /\ IF ~PaletteAttempted(stdinTTY, stdoutTTY)
       THEN /\ Resolve(PaletteFallback, Settler("notTTY", FALSE, 0, <<>>))
            /\ pc' = "palette"
            /\ UNCHANGED spawned
       ELSE /\ spawned' = Append(spawned, Child("which", "", "fzf", "running"))
            /\ pc' = "which"
            /\ UNCHANGED <<paletteResult, resolveCalls, selector>>
  /\ UNCHANGED <<inputs, sqlite, chatState, telemetryState, paletteInput, selected, walk, commitState, identity, args, commandCatalog, commandRegistry, out, telemetry,
                 exit, invoked, current, run, secretResults, result>>

\* how `which fzf` ends: it exits with 0 when fzf is installed; else it
\* exits with another code or cannot be spawned
WhichEnds == IF hasFzf THEN {"exit0"} ELSE {"failed", "error"}

\* selectCommandArgs once commandExists("fzf") settled: the fallback without
\* fzf; else the selector is spawned and the catalog is written to its
\* standard input
PaletteWhichClose ==
  /\ pc = "which"
  /\ pc' = "palette"
  /\ \E end \in WhichEnds :
       IF end # "exit0"
         THEN /\ Resolve(PaletteFallback, Settler("noFzf", FALSE, 0, <<>>))
              /\ spawned' = SetLastState(end)
              /\ UNCHANGED paletteInput
         ELSE /\ spawned' = Append(SetLastState(end), Child("fzf", "", "", "running"))
              /\ paletteInput' = PaletteLines(commandCatalog)
              /\ UNCHANGED <<paletteResult, resolveCalls, selector>>
  /\ UNCHANGED <<inputs, sqlite, chatState, telemetryState, selected, walk, commitState, identity, args, commandCatalog, commandRegistry, out, telemetry,
                 exit, invoked, current, run, secretResults, result>>

\* child.on("error"): the selector could not be spawned
FzfError ==
  /\ pc = "palette"
  /\ FzfStates = {"running"}
  /\ spawned' = SetLastState("error")
  /\ Resolve(PaletteFallback, Settler("error", FALSE, 0, <<>>))
  /\ UNCHANGED <<inputs, sqlite, chatState, telemetryState, paletteInput, selected, walk, commitState, identity, pc, args, commandCatalog, commandRegistry, out,
                 telemetry, exit, invoked, current, run, secretResults, result>>

\* child.on("close"): the selector ended, with what it wrote to its output.
\* After a spawn error the close event comes once main has printed the root
\* help and returned: it reports no success, and its resolve is ignored
FzfClose ==
  /\ \/ pc = "palette" /\ FzfStates = {"running"}
     \/ pc = "done" /\ FzfStates = {"error"}
  /\ \E signalled \in BOOLEAN, code \in FzfCodes, stdout \in SeqsUpTo(OutChunks, MaxOut) :
       /\ signalled => code = 0 /\ stdout = <<>>
       /\ FzfStates = {"error"} => ~signalled /\ code # 0 /\ stdout = <<>>
       /\ Resolve(PaletteOnClose(signalled, code, stdout),
                  Settler("close", signalled, code, stdout))
  /\ spawned' = SetLastState("closed")
  /\ UNCHANGED <<inputs, sqlite, chatState, telemetryState, paletteInput, selected, walk, commitState, identity, pc, args, commandCatalog, commandRegistry, out,
                 telemetry, exit, invoked, current, run, secretResults, result>>

\* the process ended by an error no handler caught
Crashed == [how |-> "uncaught", code |-> 1]

\* the selector ended without reading its standard input: the write of
\* the catalog fails, child.stdin has no listener for "error", and the
\* process ends before the close handler runs
FzfStdinError ==
  /\ pc = "palette"
  /\ FzfStates = {"running"}
  /\ paletteInput # <<>>
  /\ exit' = Crashed
  /\ pc' = "done"
  /\ UNCHANGED <<inputs, sqlite, chatState, telemetryState, paletteInput, selected, walk, commitState, identity, args, commandCatalog, commandRegistry, out,
                 telemetry, invoked, spawned, paletteResult, resolveCalls, selector, current, run, secretResults, result>>

\* main, once selectCommandArgs has settled
AfterPalette ==
  /\ pc = "palette"
  /\ paletteResult.kind # "pending"
  /\ IF paletteResult.kind = "command"
       THEN /\ args' = paletteResult.args
            /\ pc' = "dispatch"
            /\ UNCHANGED <<out, exit>>
       ELSE IF paletteResult.kind = "cancel"
         THEN /\ exit' = IF paletteResult.code # 0
                           THEN Exited(paletteResult.code)
                           ELSE Returned
              /\ pc' = "done"
              /\ UNCHANGED <<out, args>>
         ELSE /\ out' = Append(out, RootHelp)
              /\ exit' = Returned
              /\ pc' = "done"
              /\ UNCHANGED args
  /\ UNCHANGED <<inputs, sqlite, chatState, telemetryState, paletteInput, selected, walk, commitState, identity, commandCatalog, commandRegistry, telemetry, invoked,
                 spawned, paletteResult, resolveCalls, selector, current, run,
                 secretResults, result>>

(***************************************************************************)
(* main: the dispatch of a non-empty argument vector.                      *)
(***************************************************************************)
\* UnknownCommandReport without the root help
UnknownCommandReportNoHelp(key) == <<Line("unknownCommand", key)>>

\* what main prints for a command the registry does not hold
UnknownCommandReport(key) == <<Line("unknownCommand", key), RootHelp>>

\* args.includes("--help") || args.includes("-h")
IncludesHelpFlag(a) == \E i \in DOMAIN a : a[i] \in HelpFlags

Dispatch ==
  /\ pc = "dispatch"
  /\ LET top == handleTopLevel(args)
         key == args[1]
     IN  IF top.handled
           THEN /\ out' = out \o top.out
                /\ exit' = Returned
                /\ pc' = "done"
                /\ UNCHANGED <<telemetry, telemetryLogger, telemetryNoticeShown,
                               sent, pending, failures, invoked, current>>
         ELSE IF key \notin DOMAIN commandRegistry
           THEN /\ telemetry' = Append(telemetry, Event("command_not_found", key))
                /\ SetTelemetry(
                     [trackTelemetry(Telemetry, Event("command_not_found", key))
                        EXCEPT !.out = out \o UnknownCommandReport(key)])
                /\ exit' = Exited(1)
                /\ pc' = "done"
                /\ UNCHANGED <<invoked, current>>
         ELSE IF IncludesHelpFlag(args)
           THEN /\ out' = out \o CommandHelpOrRoot(key)
                /\ exit' = Returned
                /\ pc' = "done"
                /\ UNCHANGED <<telemetry, telemetryLogger, telemetryNoticeShown,
                               sent, pending, failures, invoked, current>>
         ELSE /\ invoked' = Append(invoked, key)
              /\ current' = commandRegistry[key]
              /\ telemetry' =
                   Append(telemetry, Event("command_start", commandRegistry[key].name))
              /\ SetTelemetry(
                   trackTelemetry(Telemetry,
                                  Event("command_start", commandRegistry[key].name)))
              /\ pc' = "handler"
              /\ UNCHANGED exit
  /\ UNCHANGED <<inputs, sqlite, chatState, paletteInput, selected, walk, commitState, identity, args,
                 commandCatalog, commandRegistry, spawned, paletteResult,
                 resolveCalls, selector, run, secretResults, result>>

(***************************************************************************)
(* Tasks of the configuration.                                             *)
(***************************************************************************)
\* exit codes of a task command
TaskCodes == {0, 1}

\* config.cmds ?? []
TaskCommands(task) == IF task.hasCmds THEN task.cmds ELSE <<>>

\* runConfiguredTask without the throw for an empty command list: the loop
\* runs no command and the task returns
runConfiguredTaskNoThrow(name, task) ==
  IF Len(TaskCommands(task)) = 0
    THEN [spawn |-> <<>>, run |-> NoRun, result |-> Settled(TRUE, NoError),
          pc |-> "settle"]
    ELSE [spawn |-> <<Child("bash", name, TaskCommands(task)[1], "running")>>,
          run |-> [name |-> name, cmds |-> TaskCommands(task), index |-> 1],
          result |-> result,
          pc |-> "task"]

\* runConfiguredTask(name, task) up to its first await: it throws for an
\* empty command list, else executeTaskCommand spawns the first command
runConfiguredTask(name, task) ==
  IF Len(TaskCommands(task)) = 0
    THEN [spawn |-> <<>>, run |-> NoRun,
          result |-> Settled(FALSE, Error("noCommands", name, <<>>)),
          pc |-> "settle"]
    ELSE [spawn |-> <<Child("bash", name, TaskCommands(task)[1], "running")>>,
          run |-> [name |-> name, cmds |-> TaskCommands(task), index |-> 1],
          result |-> result,
          pc |-> "task"]

\* how a child ended: killed by a signal, or exited with a code
ExitState(signalled, code) ==
  IF signalled THEN "signal" ELSE IF code = 0 THEN "exit0" ELSE "failed"

\* CloseResolves without the test of the exit code
CloseResolvesAlways(signalled, code) == TRUE

\* the close handler of executeTaskCommand resolves for code 0 alone
CloseResolves(signalled, code) == ~signalled /\ code = 0

\* the handler of a task the configuration registered
RunTaskHandler ==
  /\ pc = "handler"
  /\ current.kind = "task"
  /\ LET r == runConfiguredTask(current.name, current.task)
     IN  /\ spawned' = spawned \o r.spawn
         /\ run' = r.run
         /\ result' = r.result
         /\ pc' = r.pc
  /\ UNCHANGED <<inputs, sqlite, chatState, telemetryState, paletteInput, selected, walk, commitState, identity, args, commandCatalog, commandRegistry, out, telemetry,
                 exit, invoked, paletteResult, resolveCalls, selector, current,
                 secretResults>>

\* child.on("close") of executeTaskCommand, and the loop of runConfiguredTask
\* up to its next await
ExecuteTaskCommandClose ==
  /\ pc = "task"
  /\ \E signalled \in BOOLEAN, code \in TaskCodes :
       /\ signalled => code = 0
       /\ IF CloseResolves(signalled, code)
            THEN IF run.index < Len(run.cmds)
                   THEN /\ spawned' =
                             Append(SetLastState(ExitState(signalled, code)),
                                    Child("bash", run.name, run.cmds[run.index + 1],
                                          "running"))
                        /\ run' = [run EXCEPT !.index = @ + 1]
                        /\ UNCHANGED <<result, pc>>
                   ELSE /\ spawned' = SetLastState(ExitState(signalled, code))
                        /\ result' = Settled(TRUE, NoError)
                        /\ pc' = "settle"
                        /\ UNCHANGED run
            ELSE /\ spawned' = SetLastState(ExitState(signalled, code))
                 /\ result' = Settled(FALSE, Error("commandExit", run.name, <<>>))
                 /\ pc' = "settle"
                 /\ UNCHANGED run
  /\ UNCHANGED <<inputs, sqlite, chatState, telemetryState, paletteInput, selected, walk, commitState, identity, args, commandCatalog, commandRegistry, out, telemetry,
                 exit, invoked, paletteResult, resolveCalls, selector, current,
                 secretResults>>

\* child.on("error") of executeTaskCommand: the shell could not be spawned
ExecuteTaskCommandError ==
  /\ pc = "task"
  /\ spawned' = SetLastState("error")
  /\ result' = Settled(FALSE, Error("spawnError", run.name, <<>>))
  /\ pc' = "settle"
  /\ UNCHANGED <<inputs, sqlite, chatState, telemetryState, paletteInput, selected, walk, commitState, identity, args, commandCatalog, commandRegistry, out, telemetry,
                 exit, invoked, paletteResult, resolveCalls, selector, current, run,
                 secretResults>>

(***************************************************************************)
(* The built-in handlers.                                                  *)
(***************************************************************************)
\* MissingBlocks without the test of the missing list
MissingNeverBlocks(r) == FALSE

\* runSetup throws when validateSecrets reports a missing secret
MissingBlocks(r) == Len(r.missing) > 0

\* runSetup up to its first await
runSetup ==
  /\ pc = "handler"
  /\ current.kind = "builtin" /\ current.name = "setup"
  /\ IF ~config.exists
       THEN /\ out' = Append(out, Line("noConfig", ""))
            /\ result' = Settled(TRUE, NoError)
            /\ pc' = "settle"
            /\ UNCHANGED <<secretResults, spawned, run>>
       ELSE LET r == validateSecrets(env, config)
                t == TaskOf(config, "setup")
                s == runConfiguredTask("setup", t.task)
            IN  /\ secretResults' =
                     [validated |-> TRUE, lines |-> r.lines, missing |-> r.missing]
                /\ IF MissingBlocks(r)
                     THEN /\ out' = out \o r.lines
                          /\ result' =
                               Settled(FALSE, Error("missingSecrets", "", r.missing))
                          /\ pc' = "settle"
                          /\ UNCHANGED <<spawned, run>>
                   ELSE IF config.hasTasks /\ t.found
                     THEN /\ out' = out \o r.lines \o <<Line("runningSetup", "")>>
                          /\ spawned' = spawned \o s.spawn
                          /\ run' = s.run
                          /\ result' = s.result
                          /\ pc' = s.pc
                     ELSE /\ out' = out \o r.lines \o <<Line("noSetupTask", "")>>
                          /\ result' = Settled(TRUE, NoError)
                          /\ pc' = "settle"
                          /\ UNCHANGED <<spawned, run>>
  /\ UNCHANGED <<inputs, sqlite, chatState, telemetryState, paletteInput, selected, walk, commitState, identity, args, commandCatalog, commandRegistry, telemetry, exit,
                 invoked, paletteResult, resolveCalls, selector, current>>

\* the handler of `version` logs the reported version
RunVersion ==
  /\ pc = "handler"
  /\ current.kind = "builtin" /\ current.name = "version"
  /\ out' = Append(out, Line("version", ""))
  /\ result' = Settled(TRUE, NoError)
  /\ pc' = "settle"
  /\ UNCHANGED <<inputs, sqlite, chatState, telemetryState, paletteInput, selected, walk, commitState, identity, args, commandCatalog, commandRegistry, telemetry, exit,
                 invoked, spawned, paletteResult, resolveCalls, selector, current, run,
                 secretResults>>

\* n spaces
RECURSIVE Spaces(_)
Spaces(n) == IF n <= 0 THEN "" ELSE " " \o Spaces(n - 1)

\* String.prototype.padEnd(width) with spaces
PadEnd(name, width) == name \o Spaces(width - Len(name))

\* the longest name of the tasks from the i-th on, at least max
RECURSIVE LongestName(_, _, _)
LongestName(tasks, i, max) ==
  IF i > Len(tasks) THEN max
  ELSE LongestName(tasks, i + 1,
                   IF Len(tasks[i].name) > max THEN Len(tasks[i].name) ELSE max)

\* the line runTasksList prints for one task
TaskLine(entry, width) ==
  LET cmdCount == Len(TaskCommands(entry.task))
      desc == IF entry.task.hasDesc THEN "desc of " \o entry.name
                                    ELSE "(no description)"
      suffix == " (" \o ToString(cmdCount) \o " cmd"
                  \o (IF cmdCount = 1 THEN "" ELSE "s") \o ")"
  IN  Line("task", "  " \o PadEnd(entry.name, width) \o "  " \o desc \o suffix)

\* what runTasksList prints for a configuration
TasksList(cfg) ==
  IF ~cfg.exists \/ ~cfg.hasTasks \/ cfg.tasks = <<>>
    THEN <<Line("noTasks", ONE_F_CONFIG_FILENAME)>>
    ELSE <<Line("tasksHeader", ONE_F_CONFIG_FILENAME)>>
           \o [i \in DOMAIN cfg.tasks |->
                 TaskLine(cfg.tasks[i], LongestName(cfg.tasks, 1, 0))]

\* runTasksList once loadOneFConfig returned
runTasksList ==
  /\ pc = "handler"
  /\ current.kind = "builtin" /\ current.name = "tasks"
  /\ out' = out \o TasksList(config)
  /\ result' = Settled(TRUE, NoError)
  /\ pc' = "settle"
  /\ UNCHANGED <<spawned>>
  /\ UNCHANGED <<inputs, sqlite, chatState, telemetryState, paletteInput, selected, walk,
                 commitState, identity, args, commandCatalog, commandRegistry,
                 telemetry, exit, invoked, paletteResult, resolveCalls, selector,
                 current, run, secretResults>>

\* how a child of runCommandStreaming ends: it exits with 0 or with another
\* code, a signal ends it, or it cannot be spawned
StreamEnds == {"exit0", "failed", "signal", "error"}

\* the error runCommandStreaming rejects with
StreamError(end, command) ==
  Error(IF end = "error" THEN "spawnError" ELSE "exited", command, <<>>)

\* runUpdate up to its first await: bun update --latest is spawned
UpdateStart ==
  /\ pc = "handler"
  /\ current.kind = "builtin" /\ current.name = "update"
  /\ out' = Append(out, Line("updating", "bun update --latest"))
  /\ spawned' = Append(spawned, Child("bun", "", "update --latest", "running"))
  /\ pc' = "updateBun"
  /\ UNCHANGED result
  /\ UNCHANGED <<inputs, sqlite, chatState, telemetryState, paletteInput, selected, walk,
                 commitState, identity, args, commandCatalog, commandRegistry,
                 telemetry, exit, invoked, paletteResult, resolveCalls, selector,
                 current, run, secretResults>>

\* runUpdate once bun ended: git pull is spawned
UpdateBunClose ==
  /\ pc = "updateBun"
  /\ \E end \in StreamEnds :
       IF end = "exit0"
         THEN /\ out' = Append(out, Line("updating", "git pull"))
              /\ spawned' = Append(SetLastState(end), Child("git", "", "pull", "running"))
              /\ pc' = "updatePull"
              /\ UNCHANGED result
         ELSE /\ spawned' = SetLastState(end)
              /\ result' = Settled(FALSE, StreamError(end, "bun update --latest"))
              /\ pc' = "settle"
              /\ UNCHANGED out
  /\ UNCHANGED <<inputs, sqlite, chatState, telemetryState, paletteInput, selected, walk,
                 commitState, identity, args, commandCatalog, commandRegistry,
                 telemetry, exit, invoked, paletteResult, resolveCalls, selector,
                 current, run, secretResults>>

\* runUpdate once git pull ended
UpdatePullClose ==
  /\ pc = "updatePull"
  /\ \E end \in StreamEnds :
       /\ spawned' = SetLastState(end)
       /\ IF end = "exit0"
            THEN /\ out' = Append(out, Line("updated", ""))
                 /\ result' = Settled(TRUE, NoError)
            ELSE /\ result' = Settled(FALSE, StreamError(end, "git pull"))
                 /\ UNCHANGED out
  /\ pc' = "settle"
  /\ UNCHANGED <<inputs, sqlite, chatState, telemetryState, paletteInput, selected, walk,
                 commitState, identity, args, commandCatalog, commandRegistry,
                 telemetry, exit, invoked, paletteResult, resolveCalls, selector,
                 current, run, secretResults>>

\* executeCommandWithTelemetry once the handler it awaits settled:
\* command_success is tracked and it returns, or command_failure is tracked
\* and the error is thrown again
HandlerSettled ==
  /\ pc = "settle"
  /\ telemetry' = telemetry \o SettleEvents(result.ok, current.name)
  /\ SetTelemetry(TrackAll(Telemetry, SettleEvents(result.ok, current.name)))
  /\ pc' = "return"
  /\ UNCHANGED <<inputs, sqlite, chatState, paletteInput, selected, walk, commitState, identity, args,
                 commandCatalog, commandRegistry, exit, invoked, spawned, paletteResult,
                 resolveCalls, selector, current, run, secretResults, result>>

\* main once the `await handler()` of its try block settled: it returns, or
\* its catch prints the message of the error and calls process.exit(1)
MainSettled ==
  /\ pc = "return"
  /\ IF result.ok
       THEN /\ exit' = Returned
            /\ UNCHANGED out
       ELSE /\ out' = Append(out, Line("error", result.error.kind))
            /\ exit' = Exited(1)
  /\ pc' = "done"
  /\ UNCHANGED <<inputs, sqlite, chatState, telemetryState, paletteInput, selected, walk, commitState, identity, args,
                 commandCatalog, commandRegistry, telemetry, invoked, spawned, paletteResult,
                 resolveCalls, selector, current, run, secretResults, result>>

Next ==
  \/ Startup
  \/ TelemetryInitialized
  \/ ConfigLoaded
  \/ SelectCommandArgs
  \/ PaletteWhichClose
  \/ FzfError
  \/ FzfClose
  \/ FzfStdinError
  \/ AfterPalette
  \/ Dispatch
  \/ RunTaskHandler
  \/ ExecuteTaskCommandClose
  \/ ExecuteTaskCommandError
  \/ runSetup
  \/ RunVersion
  \/ runTasksList
  \/ HandlerSettled
  \/ MainSettled

Spec == Init /\ [][Next]_vars

(***************************************************************************)
(* Properties.                                                             *)
(***************************************************************************)
\* main has registered every command and read its arguments
Started == pc \notin {"start", "telemetry", "config"}

\* the entries of config.tasks, none without a [tasks] section
ConfigTasks == IF config.exists /\ config.hasTasks THEN config.tasks ELSE <<>>

\* the shells spawned for task commands, in order
Shells == SelectSeq(spawned, LAMBDA c : c.prog = "bash")

\* the handler main has called has run to its end
HandlerRan == pc \in {"settle", "return", "done"} /\ Len(invoked) > 0

\* C1: once main has registered the built-ins and the tasks of the
\* configuration, every built-in name maps to its built-in handler, whatever
\* the configuration declares, and the handler main calls for a built-in
\* name is the built-in one.
C1_BuiltinsKept ==
  Started =>
    /\ \A i \in DOMAIN BuiltinNames :
         /\ BuiltinNames[i] \in DOMAIN commandRegistry
         /\ commandRegistry[BuiltinNames[i]] = BuiltinHandler(BuiltinNames[i])
    /\ \A i \in DOMAIN invoked :
         invoked[i] \in Range(BuiltinNames) => current = BuiltinHandler(invoked[i])

\* a configuration declares a task named like a built-in, and main has
\* called the handler of that name
C1_Witness ==
  /\ \E i \in DOMAIN ConfigTasks : ConfigTasks[i].name = "setup"
  /\ invoked = <<"setup">>
  /\ pc = "done"

\* C2: while and after the handler of a configuration task runs, the shells
\* spawned are the first commands of its cmds in declaration order; every
\* shell but the last has exited with code 0; a shell that has not exited
\* with code 0 and is not running is the last one, and then the task has
\* failed with an error; the task succeeds only when every command has
\* exited with code 0.
C2_TaskSequential ==
  (Len(invoked) > 0 /\ current.kind = "task") =>
    LET cmds == TaskCommands(current.task) IN
    /\ Len(Shells) <= Len(cmds)
    /\ \A i \in DOMAIN Shells :
         /\ Shells[i].command = cmds[i]
         /\ Shells[i].task = current.name
         /\ i < Len(Shells) => Shells[i].state = "exit0"
         /\ Shells[i].state = "running" => pc = "task"
         /\ Shells[i].state \in {"failed", "signal", "error"} =>
              /\ pc \in {"settle", "return", "done"}
              /\ result.settled /\ ~result.ok
              /\ result.error.name = current.name
    /\ (result.settled /\ result.ok) =>
         /\ Len(Shells) = Len(cmds)
         /\ \A i \in DOMAIN Shells : Shells[i].state = "exit0"
    /\ (pc = "done" /\ ~result.ok) => exit = Exited(1)

\* a task of two commands whose first command exited with code 0 and whose
\* second command failed
C2_Witness ==
  /\ current.kind = "task"
  /\ Len(TaskCommands(current.task)) = 2
  /\ Len(Shells) = 2
  /\ Shells[1].state = "exit0"
  /\ Shells[2].state = "failed"
  /\ pc = "done"

\* C3: a task of the configuration whose name no built-in has is registered
\* with its own handler whatever its cmds are, also when cmds is empty or
\* absent; when the handler of a task with no commands has run, it has
\* failed with the error that names the task, no shell was spawned and the
\* process exits with status 1.
C3_EmptyTaskFails ==
  /\ Started =>
       \A i \in DOMAIN ConfigTasks :
         ConfigTasks[i].name \notin Range(BuiltinNames) =>
           /\ ConfigTasks[i].name \in DOMAIN commandRegistry
           /\ commandRegistry[ConfigTasks[i].name] =
                TaskHandler(ConfigTasks[i].name, ConfigTasks[i].task)
  /\ (HandlerRan /\ current.kind = "task"
        /\ (~current.task.hasCmds \/ current.task.cmds = <<>>)) =>
       /\ result.settled /\ ~result.ok
       /\ result.error = Error("noCommands", current.name, <<>>)
       /\ Shells = <<>>
       /\ pc = "done" => exit = Exited(1)

\* the handler of a task without cmds has run
C3_Witness ==
  /\ HandlerRan /\ pc = "done"
  /\ current.kind = "task"
  /\ ~current.task.hasCmds

\* the declared secrets, none without a [secrets] section
ConfigSecrets == IF config.exists /\ config.hasSecrets THEN config.secrets ELSE <<>>

\* the environment variable of a secret holds more than whitespace
EnvironmentHolds(name) ==
  /\ env[name].set
  /\ \E i \in DOMAIN env[name].raw : env[name].raw[i] \notin Whitespace

\* the outcome the specification gives a declared secret
ExpectedOutcome(entry) ==
  IF EnvironmentHolds(entry.name) THEN "set"
  ELSE IF entry.secret.required = "true" /\ entry.secret.hasDefault THEN "defaultUsed"
  ELSE IF entry.secret.required = "true" THEN "required"
  ELSE "optional"

\* the names of the required secrets that are unset and have no default
ExpectedMissing ==
  LET hit == SelectSeq(ConfigSecrets, LAMBDA e : ExpectedOutcome(e) = "required")
  IN  [i \in DOMAIN hit |-> hit[i].name]

\* C4: when validateSecrets has run on a configuration that declares
\* secrets, it has emitted one line per secret, in order, and the line of a
\* secret is "set" when its variable holds more than whitespace, else
\* "default will be used" when it is required and has a default, else
\* "required" when it is required, else "not set (optional)"; the missing
\* list holds, in order, all and only the secrets whose line is "required",
\* and the error of a failed setup lists all of them.
C4_SecretsClassified ==
  (secretResults.validated /\ Len(ConfigSecrets) > 0) =>
    /\ Len(secretResults.lines) = Len(ConfigSecrets)
    /\ \A i \in DOMAIN ConfigSecrets :
         secretResults.lines[i] =
           Line(ExpectedOutcome(ConfigSecrets[i]), ConfigSecrets[i].name)
    /\ secretResults.missing = ExpectedMissing
    /\ (result.settled /\ ExpectedMissing # <<>>) =>
         result.error = Error("missingSecrets", "", ExpectedMissing)

\* two secrets are required, unset and without default, and setup has failed
C4_Witness ==
  /\ secretResults.validated
  /\ Len(ConfigSecrets) = 2
  /\ Len(secretResults.missing) = 2
  /\ pc = "done"

\* C5: a shell for a command of the setup task is spawned only by the
\* built-in setup handler, called for the command `setup`, after
\* validateSecrets has returned an empty missing list; when a required
\* secret is unset and has no default, setup fails, the process exits with
\* status 1 and no shell is spawned; the name `setup` stays registered to
\* the built-in handler when the configuration declares a setup task.
C5_SetupGated ==
  /\ \A i \in DOMAIN Shells :
       Shells[i].task = "setup" =>
         /\ invoked = <<"setup">>
         /\ current = BuiltinHandler("setup")
         /\ secretResults.validated
         /\ secretResults.missing = <<>>
         /\ ExpectedMissing = <<>>
  /\ (HandlerRan /\ invoked = <<"setup">> /\ ExpectedMissing # <<>>) =>
       /\ Shells = <<>>
       /\ result.settled /\ ~result.ok
       /\ pc = "done" => exit = Exited(1)
  /\ Started => commandRegistry["setup"] = BuiltinHandler("setup")

\* the commands of a setup task have run after the validation of declared
\* secrets, one of them required
C5_Witness ==
  /\ pc = "done"
  /\ Len(Shells) > 0 /\ Shells[1].task = "setup"
  /\ \E i \in DOMAIN ConfigSecrets : ConfigSecrets[i].secret.required = "true"
  /\ result.ok

\* the first tokens the specification calls top-level flags
TopLevelFlags == {"--help", "-h", "--version", "help"}

\* main has dispatched a non-empty argument vector to its end
Dispatched == pc = "done" /\ Len(args) > 0

\* the error line and the root help are all the output, no handler was
\* called and the process has exited with status 1
UnknownReported ==
  /\ out = <<Line("unknownCommand", args[1]), RootHelp>>
  /\ invoked = <<>>
  /\ exit = Exited(1)

ConfigurationLoads == config.load = "ok"

\* the run ended where loadOneFConfig rejected: the message of that error
\* is all the output, nothing was called or spawned, and the process has
\* exited with status 1
LoadFailureReported ==
  /\ out = <<Line("error", config.load)>>
  /\ exit = Exited(1)
  /\ invoked = <<>>
  /\ spawned = <<>>
  /\ \A i \in DOMAIN telemetry : telemetry[i].event = "cli_invocation"

C7_Original ==
  (Len(argv) > 0 /\ argv[1] \in TopLevelFlags) =>
    /\ invoked = <<>>
    /\ \A i \in DOMAIN telemetry : telemetry[i].event # "command_not_found"
    /\ exit.code = 0

\* C7, amended: when 1f.toml is absent or loads, an argument vector whose
\* first token is --help, -h, --version or help never reaches a handler: no
\* handler is called, no shell is spawned, no command_not_found event is
\* tracked and main returns without process.exit, whatever the registry
\* holds; when 1f.toml cannot be loaded, no handler is called and no
\* command_not_found event is tracked either, but the run ends before the
\* arguments are read, with the error of the load and exit status 1.
C7_TopLevelShortCircuits ==
  /\ (Len(args) > 0 /\ args[1] \in TopLevelFlags) =>
       /\ pc \in {"dispatch", "done"}
       /\ invoked = <<>>
       /\ spawned = <<>> \/ argv = <<>>
       /\ Shells = <<>>
       /\ \A i \in DOMAIN telemetry : telemetry[i].event # "command_not_found"
       /\ pc = "done" => exit = Returned
  /\ (Len(argv) > 0 /\ argv[1] \in TopLevelFlags /\ pc = "done") =>
       IF ConfigurationLoads
         THEN args = argv /\ exit = Returned
         ELSE LoadFailureReported

\* `help x` for an unknown topic x, with a configuration that registers a
\* task named help
C7_Witness ==
  /\ pc = "done"
  /\ ConfigurationLoads
  /\ args = <<"help", "x">>
  /\ "help" \in DOMAIN commandRegistry
  /\ out = <<Line("unknownHelpTopic", "x")>>

\* C8, as stated: for every registered name given as first token, when the
\* remaining tokens include --help or -h the help of that command is
\* printed and its handler is not called, and otherwise its handler is
\* called exactly once.
C8_Original ==
  (Dispatched /\ args[1] \in DOMAIN commandRegistry) =>
    IF IncludesHelpFlag(Tail(args))
      THEN out = <<Line("commandHelp", args[1])>> /\ invoked = <<>>
      ELSE invoked = <<args[1]>>

\* C9, as stated: with an empty argument vector the selector is spawned
\* only when standard input and standard output are both terminals; when
\* one of them is not, no process is spawned, no handler is called, and the
\* run ends with the root help as its output and exit status 0.
C9_Original ==
  Len(argv) = 0 =>
    /\ (\E i \in DOMAIN spawned : spawned[i].prog = "fzf") => stdinTTY /\ stdoutTTY
    /\ ~(stdinTTY /\ stdoutTTY) =>
         /\ spawned = <<>>
         /\ invoked = <<>>
         /\ pc = "done" => out = <<RootHelp>> /\ exit.code = 0

\* C9, amended: with an empty argument vector the selector is spawned only
\* when standard input and standard output are both terminals; when one of
\* them is not, no process is spawned and no handler is called, and, when
\* 1f.toml is absent or loads, the root help is all the output and main
\* returns without process.exit; when 1f.toml cannot be loaded the run ends
\* with the error of the load and exit status 1 instead of the root help.
C9_PaletteNeedsTerminal ==
  Len(argv) = 0 =>
    /\ (\E i \in DOMAIN spawned : spawned[i].prog = "fzf") => stdinTTY /\ stdoutTTY
    /\ ~(stdinTTY /\ stdoutTTY) =>
         /\ spawned = <<>>
         /\ invoked = <<>>
         /\ pc \in {"start", "telemetry", "config", "select", "palette", "done"}
         /\ pc = "done" =>
              IF ConfigurationLoads
                THEN out = <<RootHelp>> /\ exit = Returned
                ELSE LoadFailureReported

\* no arguments, standard input a terminal and standard output not, and a
\* selector installed: main has ended
C9_Witness ==
  /\ Len(argv) = 0
  /\ stdinTTY /\ ~stdoutTTY /\ hasFzf
  /\ ConfigurationLoads
  /\ pc = "done"
  /\ out = <<RootHelp>>

\* the lines of a selector output that hold more than whitespace
NonBlankLines(stdout) ==
  {i \in DOMAIN SplitOn(stdout, "\n") :
     \E j \in DOMAIN SplitOn(stdout, "\n")[i] :
       SplitOn(stdout, "\n")[i][j] \notin Whitespace}

\* the first of them
SelectedLine(stdout) ==
  SplitOn(stdout, "\n")[CHOOSE i \in NonBlankLines(stdout) :
                          \A j \in NonBlankLines(stdout) : i <= j]

\* the token before the first tab of a line, without the whitespace around it
LeadingToken(line) ==
  LET tabs == {i \in DOMAIN line : line[i] = "\t"}
      stop == IF tabs = {} THEN Len(line) + 1
              ELSE CHOOSE i \in tabs : \A j \in tabs : i <= j
  IN  Trim(SubSeq(line, 1, stop - 1))

\* the selector exited with code 0
ClosedWithZero == selector.cause = "close" /\ ~selector.signalled /\ selector.code = 0

\* what main does with a settled palette result
PaletteConsumed ==
  /\ (Len(argv) = 0 /\ pc = "done" /\ paletteResult.kind = "fallback") =>
       out = <<RootHelp>> /\ exit = Returned /\ invoked = <<>>
  /\ (Len(argv) = 0 /\ pc = "done" /\ paletteResult.kind = "cancel") =>
       /\ exit = Exited(IF selector.signalled THEN 1 ELSE selector.code)
       /\ invoked = <<>> /\ out = <<>>
  /\ (Len(argv) = 0 /\ pc \in {"dispatch", "handler", "task", "settle", "return", "done"}
        /\ paletteResult.kind \notin {"fallback", "cancel"}) =>
       paletteResult.kind = "command" /\ args = paletteResult.args

\* the cases of the palette result that C10 states as the code has them
PaletteOtherCases ==
  /\ selector.cause = "none" => paletteResult = PalettePending
  /\ selector.cause \in {"notTTY", "noFzf", "error"} => paletteResult = PaletteFallback
  /\ (selector.cause = "close" /\ ~ClosedWithZero) =>
       paletteResult = PaletteCancel(IF selector.signalled THEN 1 ELSE selector.code)
  /\ (ClosedWithZero /\ NonBlankLines(selector.stdout) = {}) =>
       paletteResult = PaletteFallback

\* C10, as stated: the palette result is the one of the selector's outcome,
\* settled once: exit code 0 with a non-empty selected line yields the token
\* before the first tab as the command, with no remaining arguments, and
\* main dispatches it; exit code 0 with empty output yields fallback (root
\* help); a non-zero exit yields a cancellation and the process exits with
\* that code without calling a handler; a spawn error or a missing selector
\* yields fallback; no run of the palette ends by a failure of the program.
C10_Original ==
  /\ PaletteOtherCases
  /\ PaletteConsumed
  /\ (ClosedWithZero /\ NonBlankLines(selector.stdout) # {}) =>
       paletteResult =
         PaletteCommand(<<Concat(LeadingToken(SelectedLine(selector.stdout)))>>)
  /\ Len(argv) = 0 => exit # Crashed

(***************************************************************************)
(* The identity of the command, for any names in the environment, in       *)
(* [app] and on the command line.                                          *)
(***************************************************************************)
\* the free names built on the word w
NameTextsOf(w) ==
  SeqsUpTo({" ", ".", w}, MaxName)
    \cup {<<"/">>, <<w, "/">>, <<"bin", "/", w, ".", "ts">>,
          <<w, ".", "ts", ".", "ts">>}

FlowEnvironments ==
  {[FLOW_COMMAND_NAME |-> n, FLOW_COMMAND_SUMMARY |-> s] :
     n \in {NoText} \cup {SomeText(t) : t \in NameTextsOf("e")},
     s \in {NoText, SomeText(<<" ">>), SomeText(<<" ", "sum">>)}}

ScriptPaths ==
  {NoText, SomeText(<<"/", "opt", "/", "cli", ".", "ts">>), SomeText(<<"fast">>)}

AppTables ==
  {NoApp} \cup
  {MakeApp(n, d, v) :
     n \in {NoText} \cup {SomeText(t) : t \in NameTextsOf("a")},
     d \in {NoText, SomeText(<<" ">>), SomeText(<<"desc", " ">>)},
     v \in {NoText, SomeText(<<" ", "2.0">>)}}

\* `fast --version` under any identity
InitIdentity ==
  /\ Loaded
  /\ config \in {WithApp(MakeConfig(FALSE, <<>>, FALSE, <<>>), a) : a \in AppTables}
  /\ argv = <<"--version">>
  /\ env = NoEnvironment
  /\ stdinTTY = TRUE /\ stdoutTTY = TRUE /\ hasFzf = TRUE
  /\ scriptPath \in ScriptPaths
  /\ flowEnv \in FlowEnvironments
  /\ NoProject

NextIdentity == Startup \/ TelemetryInitialized \/ ConfigLoaded \/ Dispatch

SpecIdentity == InitIdentity /\ [][NextIdentity]_vars

\* the names offered to the run, as lookupNonEmptyEnv and the trims see them
EnvName == lookupNonEmptyEnv(flowEnv, "FLOW_COMMAND_NAME")

EnvSummary == lookupNonEmptyEnv(flowEnv, "FLOW_COMMAND_SUMMARY")

AppNameGiven == config.app.present /\ TrimmedOption(config.app.name)

AppDescriptionGiven == config.app.present /\ TrimmedOption(config.app.description)

ScriptNameGiven == scriptPath.set /\ Trim(scriptPath.raw) # <<>>

\* C11: the name of the command is the one FLOW_COMMAND_NAME gives when it
\* is set to a non-blank value, whatever [app] says; otherwise the one the
\* non-blank name of [app] gives; otherwise the one the invocation path
\* gives, or the default name
C11_NamePrecedence ==
  Started =>
    commandName =
      IF EnvName.defined THEN BaseName(EnvName.value)
      ELSE IF AppNameGiven THEN BaseName(Trim(config.app.name.raw))
      ELSE IF ScriptNameGiven THEN BaseName(Trim(scriptPath.raw))
      ELSE DEFAULT_COMMAND_NAME

\* both FLOW_COMMAND_NAME and [app] give a name, and they differ
C11_Witness ==
  /\ Started
  /\ EnvName.defined /\ AppNameGiven
  /\ BaseName(EnvName.value) # BaseName(Trim(config.app.name.raw))
  /\ commandName = "e"

\* C12: a summary set by FLOW_COMMAND_SUMMARY is kept; without it the
\* description of [app] is the summary; without both the summary is the
\* one generated from the final name of the command
C12_Original ==
  Started =>
    commandSummary =
      IF EnvSummary.defined THEN Concat(EnvSummary.value)
      ELSE IF AppDescriptionGiven THEN Concat(Trim(config.app.description.raw))
      ELSE SummaryFor(commandName)

(***************************************************************************)
(* `fast commit` and `fast commitPush`: runCommitPushWorkflow.             *)
(***************************************************************************)
\* the chunks of the text the commit model returns
MessageChunks == {"\"", "'", " ", "\t", "\n", "\r", "w"}

\* longer texts: a quoted message of two paragraphs, a message quoted
\* twice, paragraphs apart by a line of blanks, lines with trailing blanks,
\* quotes around blanks, a carriage return before a line end
LongReplies ==
  {<<" ", "\"", "w", "\n", "\n", "w", "\"", " ">>,
   <<"\"", "\"", "w", "\"", "\"">>,
   <<"w", " ", "\n", " ", "\t", "\n", "w", "\t", "\r", "\n", "w">>,
   <<"'", "w", " ", "w", "\t", " ", "\n", "w", "'">>,
   <<"\"", " ", "\n", "\"">>,
   <<"w", " ", "\r", "\r", "\n", "w">>}

Replies == SeqsUpTo(MessageChunks, MaxMsg) \cup LongReplies

\* what `git diff --cached` prints
Diffs == {<<>>, <<" ", "\n">>, <<"d", "\n">>}

OPENAI_API_KEY_ENV == "OPENAI_API_KEY"

\* `fast commit` or `fast commitPush`, with or without an API key
InitCommit ==
  /\ Loaded
  /\ config = NoConfig
  /\ argv \in {<<"commit">>, <<"commitPush">>}
  /\ env = NoEnvironment
  /\ stdinTTY = TRUE /\ stdoutTTY = TRUE /\ hasFzf = TRUE
  /\ scriptPath = SomeText(<<"/", "bin", "/", "fast">>)
  /\ flowEnv \in {[FLOW_COMMAND_NAME |-> NoText, FLOW_COMMAND_SUMMARY |-> NoText,
                   OPENAI_API_KEY |-> k] :
                    k \in {NoText, SomeText(<<" ">>), SomeText(<<"sk">>)}}
  /\ NoProject

CommitHandler == current.kind = "builtin" /\ current.name \in {"commit", "commitPush"}

\* the awaited handler throws
Throw(error) ==
  /\ result' = Settled(FALSE, error)
  /\ pc' = "settle"

\* a child process of `git <command>` that runs
GitRunning(command) == Child("git", "", command, "running")

\* the child spawned last exited with code
LastExited(code) == SetLastState(IF code = 0 THEN "exit0" ELSE "failed")

\* the handler up to its first await: prepareCommit calls
\* ensureGitRepository, which spawns git rev-parse
CommitStart ==
  /\ pc = "handler"
  /\ CommitHandler
  /\ spawned' = Append(spawned, GitRunning("rev-parse --is-inside-work-tree"))
  /\ pc' = "commitRevParse"
  /\ UNCHANGED <<commitState, out, result>>
  /\ UNCHANGED <<inputs, sqlite, chatState, telemetryState, paletteInput, selected, walk,
                 identity, args, commandCatalog, commandRegistry, telemetry, exit,
                 invoked, paletteResult, resolveCalls, selector, current, run,
                 secretResults>>

\* ensureGitRepository once git rev-parse ended: it throws unless git
\* printed true; then resolveOpenAIKey throws without a key, and with one
\* `git add .` is spawned
CommitInside ==
  /\ pc = "commitRevParse"
  /\ \E inside \in {"true", "false", "failed"} :
       IF inside # "true"
         THEN /\ spawned' = LastExited(IF inside = "failed" THEN 1 ELSE 0)
              /\ Throw(Error(IF inside = "failed" THEN "execFailed"
                                                  ELSE "notGitRepository",
                             "git rev-parse --is-inside-work-tree", <<>>))
       ELSE IF ~lookupNonEmptyEnv(flowEnv, OPENAI_API_KEY_ENV).defined
         THEN /\ spawned' = LastExited(0)
              /\ Throw(Error("noApiKey", OPENAI_API_KEY_ENV, <<>>))
       ELSE /\ spawned' = Append(LastExited(0), GitRunning("add ."))
            /\ pc' = "commitAdd"
            /\ UNCHANGED result
  /\ UNCHANGED <<commitState, out>>
  /\ UNCHANGED <<inputs, sqlite, chatState, telemetryState, paletteInput, selected, walk,
                 identity, args, commandCatalog, commandRegistry, telemetry, exit,
                 invoked, paletteResult, resolveCalls, selector, current, run,
                 secretResults>>

\* prepareCommit once `git add .` ended: `git diff --cached` is spawned
CommitAdd ==
  /\ pc = "commitAdd"
  /\ \E code \in {0, 1} :
       IF code = 0
         THEN /\ spawned' = Append(LastExited(code), GitRunning("diff --cached"))
              /\ pc' = "commitDiff"
              /\ UNCHANGED result
         ELSE /\ spawned' = LastExited(code)
              /\ Throw(Error("exited", "git add .", <<>>))
  /\ UNCHANGED <<commitState, out>>
  /\ UNCHANGED <<inputs, sqlite, chatState, telemetryState, paletteInput, selected, walk,
                 identity, args, commandCatalog, commandRegistry, telemetry, exit,
                 invoked, paletteResult, resolveCalls, selector, current, run,
                 secretResults>>

\* what `git status --short` prints when there are staged changes
Statuses == {<<"M", " ", "f", "\n">>}

\* the budget of the diff in the prompt, in characters
MAX_COMMIT_DIFF_CHARS == 12000

\* the text `[Diff truncated to the first 12000 characters]`
TruncationMarker ==
  "[Diff truncated to the first " \o ToString(MAX_COMMIT_DIFF_CHARS) \o " characters]"

\* the text `[Diff truncated to fit within prompt]`
PartialNotice == "[Diff truncated to fit within prompt]"

truncateDiffLate(diff) ==
  IF Len(diff) <= MAX_COMMIT_DIFF_CHARS + 1
    THEN [truncatedDiff |-> diff, truncated |-> FALSE]
    ELSE [truncatedDiff |-> SubSeq(diff, 1, MAX_COMMIT_DIFF_CHARS)
                              \o <<"\n", "\n", TruncationMarker>>,
          truncated |-> TRUE]

\* a diff is a sequence of characters
truncateDiffForCommit(diff) ==
  IF Len(diff) <= MAX_COMMIT_DIFF_CHARS
    THEN [truncatedDiff |-> diff, truncated |-> FALSE]
    ELSE [truncatedDiff |-> SubSeq(diff, 1, MAX_COMMIT_DIFF_CHARS)
                              \o <<"\n", "\n", TruncationMarker>>,
          truncated |-> TRUE]

\* the userPrompt of generateCommitMessage
UserPrompt(diff, status, truncated) ==
  <<"Write a git commit message for the staged changes.", "\n", "\n",
    "Git diff:", "\n">>
    \o diff
    \o (IF truncated THEN <<"\n", "\n", PartialNotice>> ELSE <<>>)
    \o (IF Trim(status) # <<>>
          THEN <<"\n", "\n", "Git status --short:", "\n">> \o Trim(status)
          ELSE <<>>)

\* the texts the model may return in this run
RepliesOf(name) == IF name = "commit" THEN Replies ELSE LongReplies

\* prepareCommit once `git diff --cached` ended with one of diffs: a blank
\* diff is an error; else `git status --short` is spawned
CommitDiffOf(diffs) ==
  /\ pc = "commitDiff"
  /\ \E code \in {0, 1}, d \in diffs :
       IF code # 0
         THEN /\ spawned' = LastExited(code)
              /\ Throw(Error("execFailed", "git diff --cached", <<>>))
              /\ UNCHANGED stagedDiff
       ELSE IF Trim(d) = <<>>
         THEN /\ spawned' = LastExited(code)
              /\ stagedDiff' = [captured |-> TRUE, text |-> d]
              /\ Throw(Error("noStagedChanges", "", <<>>))
         ELSE /\ spawned' = Append(LastExited(code), GitRunning("status --short"))
              /\ stagedDiff' = [captured |-> TRUE, text |-> d]
              /\ pc' = "commitStatus"
              /\ UNCHANGED result
  /\ UNCHANGED <<reply, payload, commitArgs, prompt, out>>
  /\ UNCHANGED <<inputs, sqlite, chatState, telemetryState, paletteInput, selected, walk,
                 identity, args, commandCatalog, commandRegistry, telemetry, exit,
                 invoked, paletteResult, resolveCalls, selector, current, run,
                 secretResults>>

\* prepareCommit once `git status --short` ended, with one of statuses or
\* with a failure that leaves the status empty: generateCommitMessage
\* builds the prompt and asks the model
CommitStatusOf(statuses) ==
  /\ pc = "commitStatus"
  /\ \E code \in {0, 1}, printed \in statuses :
       /\ spawned' = LastExited(code)
       /\ LET cut == truncateDiffForCommit(stagedDiff.text)
              status == IF code = 0 THEN printed ELSE <<>>
          IN  prompt' = [sent |-> TRUE,
                         truncatedDiff |-> cut.truncatedDiff,
                         truncated |-> cut.truncated,
                         text |-> UserPrompt(cut.truncatedDiff, status,
                                             cut.truncated)]
  /\ pc' = "commitModel"
  /\ UNCHANGED <<stagedDiff, reply, payload, commitArgs, out, result>>
  /\ UNCHANGED <<inputs, sqlite, chatState, telemetryState, paletteInput, selected, walk,
                 identity, args, commandCatalog, commandRegistry, telemetry, exit,
                 invoked, paletteResult, resolveCalls, selector, current, run,
                 secretResults>>

\* generateCommitMessage once result.text settled, with one of replies or
\* with a failure: a blank text is an error; prepareCommit formats the
\* message and returns the payload; runCommitPushWorkflow prints the
\* proposed message, and commitWithPayload spawns git commit
CommitModelOf(replies) ==
  /\ pc = "commitModel"
  /\ \E answered \in BOOLEAN, text \in replies :
       IF ~answered
         THEN /\ Throw(Error("modelFailed", "", <<>>))
              /\ UNCHANGED <<reply, payload, commitArgs, out, spawned>>
       ELSE
         /\ reply' = [received |-> TRUE, text |-> text]
         /\ LET generated == GeneratedMessage(text)
                formatted == FormatCommit(generated.message)
            IN  IF ~generated.ok
                  THEN /\ Throw(Error("emptyReply", "", <<>>))
                       /\ UNCHANGED <<payload, commitArgs, out, spawned>>
                ELSE IF ~formatted.ok
                  THEN /\ Throw(Error(formatted.error, "", <<>>))
                       /\ UNCHANGED <<payload, commitArgs, out, spawned>>
                ELSE /\ payload' = [ready |-> TRUE,
                                    message |-> formatted.message,
                                    paragraphs |-> formatted.paragraphs]
                     /\ out' = Append(out, Line("proposedMessage",
                                                Concat(formatted.message)))
                     /\ commitArgs' = CommitArguments(formatted.paragraphs)
                     /\ spawned' = Append(spawned, GitRunning("commit"))
                     /\ pc' = "commitRun"
                     /\ UNCHANGED result
  /\ UNCHANGED <<stagedDiff, prompt>>
  /\ UNCHANGED <<inputs, sqlite, chatState, telemetryState, paletteInput, selected, walk,
                 identity, args, commandCatalog, commandRegistry, telemetry, exit,
                 invoked, paletteResult, resolveCalls, selector, current, run,
                 secretResults>>

\* a run on a small staged diff
CommitDiff == CommitDiffOf(Diffs)

CommitStatus == CommitStatusOf(Statuses)

CommitModel == CommitModelOf(RepliesOf(current.name))

\* runCommitPushWorkflow once git commit ended: printCommitSuccess, and
\* git push is spawned
CommitRun ==
  /\ pc = "commitRun"
  /\ \E code \in {0, 1} :
       IF code = 0
         THEN /\ out' = IF payload.paragraphs # <<>>
                          THEN Append(out, Line("committed",
                                                Concat(payload.paragraphs[1])))
                          ELSE out
              /\ spawned' = Append(LastExited(code), GitRunning("push"))
              /\ pc' = "commitPush"
              /\ UNCHANGED result
         ELSE /\ spawned' = LastExited(code)
              /\ Throw(Error("exited", "git commit", <<>>))
              /\ UNCHANGED out
  /\ UNCHANGED commitState
  /\ UNCHANGED <<inputs, sqlite, chatState, telemetryState, paletteInput, selected, walk,
                 identity, args, commandCatalog, commandRegistry, telemetry, exit,
                 invoked, paletteResult, resolveCalls, selector, current, run,
                 secretResults>>

\* runCommitPushWorkflow once git push ended
CommitPush ==
  /\ pc = "commitPush"
  /\ \E code \in {0, 1} :
       /\ spawned' = LastExited(code)
       /\ IF code = 0
            THEN /\ out' = Append(out, Line("pushed", ""))
                 /\ result' = Settled(TRUE, NoError)
                 /\ pc' = "settle"
            ELSE /\ Throw(Error("exited", "git push", <<>>))
                 /\ UNCHANGED out
  /\ UNCHANGED commitState
  /\ UNCHANGED <<inputs, sqlite, chatState, telemetryState, paletteInput, selected, walk,
                 identity, args, commandCatalog, commandRegistry, telemetry, exit,
                 invoked, paletteResult, resolveCalls, selector, current, run,
                 secretResults>>

NextCommit ==
  \/ Startup
  \/ TelemetryInitialized
  \/ ConfigLoaded
  \/ Dispatch
  \/ CommitStart
  \/ CommitInside
  \/ CommitAdd
  \/ CommitDiff
  \/ CommitStatus
  \/ CommitModel
  \/ CommitRun
  \/ CommitPush
  \/ HandlerSettled
  \/ MainSettled

SpecCommit == InitCommit /\ [][NextCommit]_vars

\* the positions in spawned of the `git <command>` children
GitCalls(command) ==
  {i \in DOMAIN spawned : spawned[i].prog = "git" /\ spawned[i].command = command}

GitSucceededBefore(command, i) ==
  \E j \in GitCalls(command) : j < i /\ spawned[j].state = "exit0"

HandlerOver == pc \in {"settle", "return", "done"}

\* C13: git commit is spawned only after `git add .` succeeded, a staged
\* diff that is not blank was read, the model returned a text that is not
\* blank and the formatting gave at least one paragraph; git push is
\* spawned only after git commit exited with 0; with a blank diff, a blank
\* reply or no paragraph the handler fails, the process exits with 1, and
\* neither git commit nor git push is spawned
C13_CommitGated ==
  /\ \A i \in GitCalls("commit") :
       /\ GitSucceededBefore("add .", i)
       /\ GitSucceededBefore("diff --cached", i)
       /\ stagedDiff.captured /\ Trim(stagedDiff.text) # <<>>
       /\ reply.received /\ Trim(reply.text) # <<>>
       /\ payload.ready /\ payload.paragraphs # <<>>
       /\ commitArgs = CommitArguments(payload.paragraphs)
  /\ \A i \in GitCalls("push") : GitSucceededBefore("commit", i)
  /\ (/\ HandlerOver
      /\ \/ stagedDiff.captured /\ Trim(stagedDiff.text) = <<>>
         \/ reply.received /\ Trim(reply.text) = <<>>
         \/ reply.received
              /\ splitCommitMessageParagraphs(
                   trimMatchingQuotes(Trim(reply.text))) = <<>>)
       => /\ result.settled /\ ~result.ok
          /\ GitCalls("commit") = {} /\ GitCalls("push") = {}
          /\ pc = "done" => exit = Exited(1)

\* a run that committed a message of two paragraphs and pushed it
C13_Witness ==
  /\ pc = "done" /\ exit = Returned
  /\ GitCalls("commit") # {} /\ GitCalls("push") # {}
  /\ Len(payload.paragraphs) = 2

(***************************************************************************)
(* `fast dbOpen` and `fast dbClear`: locateBladeDatabase.  A directory is  *)
(* its depth below the root; path.dirname of the root is the root.         *)
(***************************************************************************)
\* what fs.stat(candidate) gives: a file, a directory, something else that
\* exists, nothing (ENOENT), or another error (EACCES, ENOTDIR, ...)
StatResults == {"file", "directory", "other", "ENOENT", "EACCES"}

\* path.dirname(dir)
Dirname(d) == IF d = 0 THEN 0 ELSE d - 1

\* StatOutcome with a candidate that is a directory skipped
StatOutcomeSkipsDirectory(stat) ==
  IF stat = "file" THEN "return"
  ELSE IF stat = "EACCES" THEN "rethrow"
  ELSE "next"

\* one turn of the loop of locateBladeDatabase on the result of fs.stat:
\* return the candidate, throw, or go on with the parent
StatOutcome(stat) ==
  IF stat = "file" THEN "return"
  ELSE IF stat = "directory" THEN "isDirectory"
  ELSE IF stat = "ENOENT" THEN "next"
  ELSE IF stat = "other" THEN "next"
  ELSE "rethrow"

DatabaseHandler == current.kind = "builtin" /\ current.name \in {"dbOpen", "dbClear"}

\* runDBOpen, runDBClear: locateBladeDatabase(process.cwd()) is called
LocateStart ==
  /\ pc = "handler"
  /\ DatabaseHandler
  /\ dir' = cwd
  /\ located' = [status |-> "searching", at |-> cwd, visited |-> <<>>]
  /\ pc' = "locate"
  /\ UNCHANGED <<inputs, sqlite, chatState, telemetryState, paletteInput, selected, identity, commitState, args, commandCatalog,
                 commandRegistry, out, telemetry, exit, invoked, spawned,
                 paletteResult, resolveCalls, selector, current, run,
                 secretResults, result>>

\* the child the handler spawns on the database it found: runDBOpen opens
\* it in TablePlus, listSQLiteTables of runDBClear asks sqlite3 for its tables
DatabaseChild(name) ==
  IF name = "dbOpen" THEN Child("open", "", "-a TablePlus", "running")
                     ELSE Child("sqlite3", "", "list", "running")

\* one turn of the loop of locateBladeDatabase on what fs.stat gave; with
\* the database found the handler goes on to its next await
LocateStep ==
  /\ pc = "locate"
  /\ LET outcome == StatOutcome(blade[dir])
         seen == Append(located.visited, dir)
     IN  IF outcome = "return"
           THEN /\ located' = [status |-> "found", at |-> dir, visited |-> seen]
                /\ spawned' = Append(spawned, DatabaseChild(current.name))
                /\ pc' = IF current.name = "dbOpen" THEN "dbOpen" ELSE "clearList"
                /\ UNCHANGED <<dir, result>>
         ELSE IF outcome \in {"isDirectory", "rethrow"}
           THEN /\ located' = [status |-> outcome, at |-> dir, visited |-> seen]
                /\ Throw(Error(outcome, "", <<>>))
                /\ UNCHANGED <<dir, spawned>>
         ELSE IF Dirname(dir) = dir
           THEN /\ located' = [status |-> "notFound", at |-> cwd, visited |-> seen]
                /\ Throw(Error("databaseNotFound", "", <<>>))
                /\ UNCHANGED <<dir, spawned>>
         ELSE /\ located' = [located EXCEPT !.visited = seen]
              /\ dir' = Dirname(dir)
              /\ UNCHANGED <<pc, result, spawned>>
  /\ UNCHANGED <<inputs, sqlite, chatState, telemetryState, paletteInput, selected, identity, commitState, args, commandCatalog,
                 commandRegistry, out, telemetry, exit, invoked,
                 paletteResult, resolveCalls, selector, current, run,
                 secretResults>>

\* runDBOpen once `open` ended
DBOpenClose ==
  /\ pc = "dbOpen"
  /\ \E end \in StreamEnds :
       /\ spawned' = SetLastState(end)
       /\ IF end = "exit0"
            THEN /\ out' = Append(out, Line("dbOpening", ""))
                 /\ result' = Settled(TRUE, NoError)
            ELSE /\ result' = Settled(FALSE, StreamError(end, "open -a TablePlus"))
                 /\ UNCHANGED out
  /\ pc' = "settle"
  /\ UNCHANGED <<inputs, sqlite, chatState, telemetryState, paletteInput, selected, identity, commitState, walk, args, commandCatalog,
                 commandRegistry, telemetry, exit, invoked,
                 paletteResult, resolveCalls, selector, current, run,
                 secretResults>>

\* the walk is over
LocateOver == located.status \notin {"idle", "searching"}

\* the directories from cwd up to the root where the database path is a file
FileAt == {d \in 0..cwd : blade[d] = "file"}

\* the directories where the walk ends before the root is passed: the path
\* is a file, is a directory, or fs.stat fails with another error than ENOENT
StopAt == {d \in 0..cwd : blade[d] \in {"file", "directory", "EACCES"}}

Nearest(S) == CHOOSE d \in S : \A e \in S : e <= d

\* the directories from cwd upward, n of them
Upward(n) == [i \in 1..n |-> cwd - (i - 1)]

\* C14 as stated: the walk returns the candidate of the nearest directory
\* that holds the database path as a file, and fails, with the error that
\* names the searched path, only when no directory up to the root holds it
C14_Original ==
  LocateOver =>
    IF FileAt # {}
      THEN located.status = "found" /\ located.at = Nearest(FileAt)
      ELSE located.status = "notFound" /\ located.at = cwd

\* C14: the walk visits cwd and its ancestors in order, each at most once,
\* and ends at the nearest directory where the database path is a file, is
\* a directory or cannot be examined: it returns the candidate of that
\* directory when it is a file and throws there otherwise; when there is no
\* such directory it fails at the root with the error that names the
\* searched path and the start directory
C14_Locate ==
  /\ located.status # "idle" =>
       /\ Len(located.visited) <= cwd + 1
       /\ located.visited = Upward(Len(located.visited))
  /\ LocateOver =>
       IF StopAt = {}
         THEN /\ located.status = "notFound" /\ located.at = cwd
              /\ located.visited = Upward(cwd + 1)
         ELSE /\ located.at = Nearest(StopAt)
              /\ located.visited = Upward(cwd - Nearest(StopAt) + 1)
              /\ located.status =
                   IF blade[Nearest(StopAt)] = "file" THEN "found"
                   ELSE IF blade[Nearest(StopAt)] = "directory" THEN "isDirectory"
                   ELSE "rethrow"

\* the walk ended on a directory although the database is a file further up
C14_Witness ==
  /\ LocateOver
  /\ located.status = "isDirectory"
  /\ FileAt # {}
  /\ Len(located.visited) >= 2

(***************************************************************************)
(* `fast test`: runTestWatch.                                              *)
(***************************************************************************)
\* tests/ under the working directory: missing, not examinable, a file, or
\* a directory with the TypeScript files collected from it
TestsDirs ==
  [stat : {"ENOENT", "EACCES", "file"}, files : {<<>>}]
    \cup [stat : {"directory"},
          files : {<<>>, <<"tests/a.ts">>, <<"tests/a.ts", "tests/b.ts">>}]

\* the chunks of what the selector of test files prints
TestOutChunks == {" ", "\n", "tests/a.ts"}

\* exit codes of the selector of test files
TestFzfCodes == {0, 1, 2, 130}

\* `fast test` on any terminal, with or without fzf, with any tests/
InitTestWatch ==
  /\ Loaded
  /\ config \in {NoConfig} \cup UnloadableConfigs
  /\ argv = <<"test">>
  /\ env = NoEnvironment
  /\ stdinTTY \in BOOLEAN /\ stdoutTTY \in BOOLEAN /\ hasFzf \in BOOLEAN
  /\ UsualIdentity
  /\ cwd = 0
  /\ blade = [d \in 0..0 |-> "ENOENT"]
  /\ testsDir \in TestsDirs
  /\ telemetryDebug = FALSE
  /\ loggerAvailable = TRUE
  /\ NoDatabase

\* `fast` without arguments where the palette has no selector to use
InitNoSelector ==
  /\ Loaded
  /\ InitPalette
  /\ ~(stdinTTY /\ stdoutTTY /\ hasFzf)

\* TestWatchEntry that gives up the selection, with a notice, without fzf
TestWatchEntryFallsBack(tests, fzf) ==
  IF tests.stat = "ENOENT" THEN [step |-> "throw", what |-> "testsNotFound"]
  ELSE IF tests.stat = "EACCES" THEN [step |-> "throw", what |-> "statFailed"]
  ELSE IF tests.stat # "directory" THEN [step |-> "throw", what |-> "testsNotDirectory"]
  ELSE IF Len(tests.files) = 0 THEN [step |-> "return", what |-> "noTestFiles"]
  ELSE IF ~fzf THEN [step |-> "return", what |-> "selectionCancelled"]
  ELSE [step |-> "select", what |-> ""]

\* what runTestWatch does before the selector: "throw" with an error,
\* "return" after a notice, or "select"
TestWatchEntry(tests, fzf) ==
  IF tests.stat = "ENOENT" THEN [step |-> "throw", what |-> "testsNotFound"]
  ELSE IF tests.stat = "EACCES" THEN [step |-> "throw", what |-> "statFailed"]
  ELSE IF tests.stat # "directory" THEN [step |-> "throw", what |-> "testsNotDirectory"]
  ELSE IF Len(tests.files) = 0 THEN [step |-> "return", what |-> "noTestFiles"]
  ELSE IF ~fzf THEN [step |-> "throw", what |-> "fzfRequired"]
  ELSE [step |-> "select", what |-> ""]

TestHandler == current.kind = "builtin" /\ current.name = "test"

\* runTestWatch once fs.stat and collectTypeScriptTestFiles settled: with
\* test files commandExists("fzf") spawns `which fzf`
RunTestWatch ==
  /\ pc = "handler"
  /\ TestHandler
  /\ LET entry == TestWatchEntry(testsDir, TRUE)
     IN  IF entry.step = "throw"
           THEN /\ Throw(Error(entry.what, "", <<>>))
                /\ UNCHANGED <<out, spawned>>
         ELSE IF entry.step = "return"
           THEN /\ out' = Append(out, Line(entry.what, ""))
                /\ result' = Settled(TRUE, NoError)
                /\ pc' = "settle"
                /\ UNCHANGED spawned
         ELSE /\ spawned' = Append(spawned, Child("which", "", "fzf", "running"))
              /\ pc' = "testWhich"
              /\ UNCHANGED <<out, result>>
  /\ UNCHANGED <<inputs, sqlite, chatState, telemetryState, paletteInput, selected, walk, commitState, identity, args,
                 commandCatalog, commandRegistry, telemetry, exit, invoked,
                 paletteResult, resolveCalls, selector, current, run, secretResults>>

\* runTestWatch once commandExists("fzf") settled: without fzf it throws,
\* with it selectTestFile spawns the selector and writes the files to its
\* standard input
TestWhichClose ==
  /\ pc = "testWhich"
  /\ \E end \in WhichEnds :
       LET entry == TestWatchEntry(testsDir, end = "exit0")
       IN  IF entry.step = "throw"
             THEN /\ spawned' = SetLastState(end)
                  /\ Throw(Error(entry.what, "", <<>>))
                  /\ UNCHANGED out
           ELSE IF entry.step = "return"
             THEN /\ spawned' = SetLastState(end)
                  /\ out' = Append(out, Line(entry.what, ""))
                  /\ result' = Settled(TRUE, NoError)
                  /\ pc' = "settle"
           ELSE /\ spawned' = Append(SetLastState(end),
                                     Child("fzf", "test", "", "running"))
                /\ pc' = "testSelect"
                /\ UNCHANGED <<out, result>>
  /\ UNCHANGED <<inputs, sqlite, chatState, telemetryState, paletteInput, selected, walk, commitState, identity, args,
                 commandCatalog, commandRegistry, telemetry, exit, invoked,
                 paletteResult, resolveCalls, selector, current, run, secretResults>>

\* the selector of test files ended without reading its standard input:
\* the write of the files fails, child.stdin has no listener for "error",
\* and the process ends before the close handler runs
TestStdinError ==
  /\ pc = "testSelect"
  /\ exit' = Crashed
  /\ pc' = "done"
  /\ UNCHANGED <<inputs, sqlite, chatState, telemetryState, paletteInput, selected, walk, commitState, identity, args,
                 commandCatalog, commandRegistry, out, telemetry, invoked, spawned, result,
                 paletteResult, resolveCalls, selector, current, run, secretResults>>

\* selectTestFile, child.on("error"): the promise rejects
TestSelectError ==
  /\ pc = "testSelect"
  /\ spawned' = SetLastState("error")
  /\ Throw(Error("spawnFailed", "fzf", <<>>))
  /\ UNCHANGED <<inputs, sqlite, chatState, telemetryState, paletteInput, selected, walk, commitState, identity, args,
                 commandCatalog, commandRegistry, out, telemetry, exit, invoked,
                 paletteResult, resolveCalls, selector, current, run, secretResults>>

\* selectTestFile, child.on("close"), and runTestWatch up to the spawn of bun
TestSelectClose ==
  /\ pc = "testSelect"
  /\ \E code \in TestFzfCodes, stdout \in SeqsUpTo(TestOutChunks, MaxOut - 1) :
       /\ code # 0 => stdout = <<>>
       /\ IF code \notin {0, 1, 130}
            THEN /\ spawned' = SetLastState("failed")
                 /\ Throw(Error("exited", "fzf", <<>>))
                 /\ UNCHANGED <<out, selected>>
          ELSE LET choice == IF code = 0 THEN Concat(Trim(stdout)) ELSE ""
               IN  /\ selected' = choice
                   /\ IF choice = ""
                        THEN /\ spawned' = SetLastState("closed")
                             /\ out' = Append(out, Line("selectionCancelled", ""))
                             /\ result' = Settled(TRUE, NoError)
                             /\ pc' = "settle"
                        ELSE /\ spawned' = Append(SetLastState("closed"),
                                                  Child("bun", "test", choice, "running"))
                             /\ out' = Append(out, Line("watching", choice))
                             /\ pc' = "testWatch"
                             /\ UNCHANGED result
  /\ UNCHANGED <<inputs, sqlite, chatState, telemetryState, paletteInput, walk, commitState, identity, args, commandCatalog,
                 commandRegistry, telemetry, exit, invoked, paletteResult,
                 resolveCalls, selector, current, run, secretResults>>

\* `bun --watch <selected>` ended: a signal or exit code 0 resolves, any
\* other exit code and a spawn error reject
TestWatchEnd ==
  /\ pc = "testWatch"
  /\ \E how \in {"error", "signal", "exit0", "failed"} :
       /\ spawned' = SetLastState(how)
       /\ IF how \in {"signal", "exit0"}
            THEN /\ result' = Settled(TRUE, NoError)
                 /\ pc' = "settle"
            ELSE Throw(Error(IF how = "error" THEN "spawnFailed" ELSE "exited",
                             "bun", <<>>))
  /\ UNCHANGED <<inputs, sqlite, chatState, telemetryState, paletteInput, selected, walk, commitState, identity, args,
                 commandCatalog, commandRegistry, out, telemetry, exit, invoked,
                 paletteResult, resolveCalls, selector, current, run, secretResults>>

NextTest ==
  \/ Startup
  \/ TelemetryInitialized
  \/ ConfigLoaded
  \/ SelectCommandArgs
  \/ PaletteWhichClose
  \/ AfterPalette
  \/ Dispatch
  \/ RunTestWatch
  \/ TestWhichClose
  \/ TestStdinError
  \/ TestSelectError
  \/ TestSelectClose
  \/ TestWatchEnd
  \/ HandlerSettled
  \/ MainSettled

InitTest == InitTestWatch \/ InitNoSelector

SpecTest == InitTest /\ [][NextTest]_vars

\* there is no selector to use: fzf is not installed, or a standard stream
\* is not a terminal
SelectorUnavailable == ~hasFzf \/ ~stdinTTY \/ ~stdoutTTY

\* the run is one that needs the selector: the palette, or `fast test` with
\* test files to choose from
NeedsSelector ==
  \/ Len(argv) = 0
  \/ argv = <<"test">> /\ testsDir.stat = "directory" /\ Len(testsDir.files) > 0

ErrorPrinted == \E i \in DOMAIN out : out[i].kind = "error"

SelectorSpawned == \E i \in DOMAIN spawned : spawned[i].prog = "fzf"

Names(entries) == [i \in DOMAIN entries |-> entries[i].name]

\* the config tasks registerConfigTasks registers: those whose name is not
\* the name of a built-in, in the order of the configuration
RegisteredTasks ==
  SelectSeq(ConfigTasks, LAMBDA e : e.name \notin Range(BuiltinNames))

\* the catalog is `help`, the built-ins in the order of their registration,
\* then the config tasks in the order of the configuration
CatalogInOrder ==
  Started =>
    Names(commandCatalog) = <<"help">> \o BuiltinNames \o Names(RegisteredTasks)

\* the selector of the palette was given the catalog, entry by entry
PaletteListsCatalog ==
  (\E i \in DOMAIN spawned : spawned[i].prog = "fzf" /\ spawned[i].task = "")
    => paletteInput = PaletteLines(commandCatalog)

\* the root help, when printed, names the entries of the catalog in order
RootHelpListsCatalog ==
  (\E i \in DOMAIN out : out[i] = RootHelp)
    => RootHelpCommands = Names(commandCatalog)

\* C16 as stated: the catalog keeps the insertion order (help, the
\* built-ins, the config tasks), and the list streamed to the palette's
\* selector and the root help both name every entry of the catalog, the
\* config tasks too, in that order
C16_Original ==
  /\ CatalogInOrder
  /\ PaletteListsCatalog
  /\ RootHelpListsCatalog

\* the registrations a run attempts, in order: the built-ins of main, then
\* every task of the configuration
RegistrationAttempts ==
  [i \in DOMAIN BuiltinNames |->
     [name |-> BuiltinNames[i],
      description |-> BuiltinDescription(BuiltinNames[i]),
      handler |-> BuiltinHandler(BuiltinNames[i])]]
    \o [i \in DOMAIN ConfigTasks |->
          [name |-> ConfigTasks[i].name,
           description |-> TaskDescription(ConfigTasks[i].name, ConfigTasks[i].task),
           handler |-> TaskHandler(ConfigTasks[i].name, ConfigTasks[i].task)]]

\* a name is present: the catalog lists it or the registry holds it
Present(st, name) ==
  name \in DOMAIN st.registry \/ name \in Range(Names(st.catalog))

\* the catalog and the registry after the attempts from the i-th on, when a
\* registration under a name that is present changes nothing
RECURSIVE FirstWriterWins(_, _, _)
FirstWriterWins(st, attempts, i) ==
  IF i > Len(attempts) THEN st
  ELSE FirstWriterWins(
         IF Present(st, attempts[i].name)
           THEN st
           ELSE registerCommand(st, attempts[i].name, attempts[i].description,
                                attempts[i].handler),
         attempts, i + 1)

\* C17 as stated: a registration under a name that is already present
\* changes neither the catalog nor the registry, so after the startup both
\* are what the first writers made them: one catalog entry a name, and the
\* handler of the first registration
C17_Original ==
  Started =>
    LET first == FirstWriterWins(InitialCommands, RegistrationAttempts, 1)
    IN  /\ commandCatalog = first.catalog
        /\ commandRegistry = first.registry

(***************************************************************************)
(* Telemetry that fails: the logger cannot be created, or an emission      *)
(* rejects while the process is alive.                                     *)
(***************************************************************************)
\* a command, a failing command, an unknown command or a flag, with or
\* without a logger and with or without FLOW_TELEMETRY_DEBUG
InitTelemetry ==
  /\ Loaded
  /\ config = NoConfig
  /\ argv \in {<<"version">>, <<"update">>, <<"tasks">>, <<"bogus">>, <<"--help">>,
               <<"help", "update">>}
  /\ env = NoEnvironment
  /\ stdinTTY = TRUE /\ stdoutTTY = TRUE /\ hasFzf = TRUE
  /\ UsualIdentity
  /\ cwd = 0
  /\ blade = [d \in 0..0 |-> "ENOENT"]
  /\ testsDir = [stat |-> "ENOENT", files |-> <<>>]
  /\ telemetryDebug \in BOOLEAN
  /\ loggerAvailable \in BOOLEAN
  /\ NoDatabase

\* the handlers whose first statement is an await
StartsAtAwait(handler) ==
  handler.kind = "builtin" /\ handler.name \in {"setup", "tasks", "test", "chat"}

\* main and the handler it called wait at an await, or main has returned:
\* the callbacks of promises and events run
Suspended ==
  /\ pc \notin {"start", "select", "dispatch"}
  /\ pc = "handler" => StartsAtAwait(current)

\* operation.catch(handleTelemetryFailure): a pending emission rejects; the
\* process has not ended
TelemetryRejects ==
  /\ exit.how \notin {"exit", "uncaught"}
  /\ Suspended
  /\ \E i \in pending :
       SetTelemetry(handleTelemetryFailure(
                      [Telemetry EXCEPT !.pending = @ \ {i}], telemetryDebug))
  /\ UNCHANGED <<inputs, sqlite, chatState, paletteInput, selected, walk, commitState, identity, pc,
                 args, commandCatalog, commandRegistry, telemetry, exit, invoked,
                 spawned, paletteResult, resolveCalls, selector, current, run,
                 secretResults, result>>

NextTelemetry ==
  \/ Startup
  \/ TelemetryInitialized
  \/ ConfigLoaded
  \/ Dispatch
  \/ RunVersion
  \/ runTasksList
  \/ UpdateStart
  \/ UpdateBunClose
  \/ UpdatePullClose
  \/ HandlerSettled
  \/ MainSettled
  \/ TelemetryRejects

SpecTelemetry == InitTelemetry /\ [][NextTelemetry]_vars

\* the positions in sent of the events named event of the invoked command
SentOf(event) ==
  {i \in DOMAIN sent : sent[i] = Event(event, current.name)}

HandlerInvoked == invoked # <<>>

HandlerRunning == HandlerInvoked /\ pc \notin {"settle", "return", "done"}

\* telemetry is enabled: the logger was created and no failure was handled
TelemetryEnabled == Started /\ telemetryLogger

\* C18: with telemetry enabled, a handler that runs has had its
\* command_start sent and neither command_success nor command_failure; once
\* it has settled and main is over, command_start is followed by
\* command_success when it returned and by command_failure when it threw,
\* and nothing else was sent for it; the two are never both sent, enabled or
\* not; when it threw, its error is printed last and the exit status is 1
C18_HandlerEvents ==
  /\ HandlerInvoked =>
       /\ Cardinality(SentOf("command_start")) <= 1
       /\ Cardinality(SentOf("command_success")) + Cardinality(SentOf("command_failure")) <= 1
  /\ (TelemetryEnabled /\ HandlerRunning) =>
       /\ Cardinality(SentOf("command_start")) = 1
       /\ SentOf("command_success") = {} /\ SentOf("command_failure") = {}
       /\ sent[Len(sent)] = Event("command_start", current.name)
  /\ (TelemetryEnabled /\ HandlerInvoked /\ pc = "done") =>
       /\ Len(sent) >= 2
       /\ sent[Len(sent) - 1] = Event("command_start", current.name)
       /\ sent[Len(sent)] =
            Event(IF result.ok THEN "command_success" ELSE "command_failure",
                  current.name)
  /\ (HandlerInvoked /\ pc = "done" /\ ~result.ok) =>
       /\ out # <<>> /\ out[Len(out)] = Line("error", result.error.kind)
       /\ exit = Exited(1)

\* a handler threw with telemetry enabled, and main is over
C18_Witness ==
  /\ TelemetryEnabled
  /\ HandlerInvoked
  /\ pc = "done"
  /\ ~result.ok
  /\ SentOf("command_failure") # {}

\* the telemetry notices printed
Notices == {i \in DOMAIN out : out[i].kind = "telemetryDisabled"}

\* the programs whose child exited with 0
Succeeded == {spawned[i].prog : i \in {j \in DOMAIN spawned : spawned[j].state = "exit0"}}

\* what the handler of the run prints, given how its children ended
HandlerOutput ==
  IF current.name = "version" THEN <<Line("version", "")>>
  ELSE IF current.name = "tasks" THEN TasksList(config)
  ELSE <<Line("updating", "bun update --latest")>>
         \o (IF "bun" \in Succeeded THEN <<Line("updating", "git pull")>> ELSE <<>>)
         \o (IF "git" \in Succeeded THEN <<Line("updated", "")>> ELSE <<>>)

\* what main prints and how it ends when telemetry is left aside
OutcomeWithoutTelemetry ==
  IF handleTopLevel(args).handled
    THEN [exit |-> Returned, out |-> handleTopLevel(args).out]
  ELSE IF ~HandlerInvoked
    THEN [exit |-> Exited(1), out |-> UnknownCommandReport(args[1])]
  ELSE IF result.ok
    THEN [exit |-> Returned, out |-> HandlerOutput]
  ELSE [exit |-> Exited(1),
        out |-> Append(HandlerOutput, Line("error", result.error.kind))]

\* C19: a telemetry failure changes neither the exit status nor what the
\* command prints; once a failure has been handled there is no logger and
\* no event is handed to a logger any more; the notice is printed at most
\* once, and only when the debug flag is on
C19_TelemetryFailure ==
  /\ pc = "done" =>
       /\ exit = OutcomeWithoutTelemetry.exit
       /\ SelectSeq(out, LAMBDA l : l.kind # "telemetryDisabled")
            = OutcomeWithoutTelemetry.out
  /\ failures # <<>> =>
       /\ ~telemetryLogger
       /\ Len(sent) = failures[1]
       /\ \A i \in DOMAIN failures : failures[i] = failures[1]
  /\ Cardinality(Notices) <= 1
  /\ Notices # {} => telemetryDebug /\ failures # <<>>
  /\ (telemetryDebug /\ failures # <<>>) => Cardinality(Notices) = 1

\* two emissions were rejected, with the debug flag on, and main went on to
\* its end
C19_Witness ==
  /\ telemetryDebug
  /\ Len(failures) = 2
  /\ pc = "done"
  /\ HandlerInvoked

(***************************************************************************)
(* The format of the commit message.                                       *)
(***************************************************************************)
\* the message generateCommitMessage returned, trimmed by prepareCommit
TrimmedReply == Trim(reply.text)

\* the text is wrapped in a pair of the same quote character
Wrapped(t) ==
  /\ Len(t) >= 2
  /\ \/ t[1] = "\"" /\ t[Len(t)] = "\""
     \/ t[1] = "'" /\ t[Len(t)] = "'"

\* the lines of a text: what is between its line ends, "\n" or "\r\n"
LinesOf(t) == SplitLines(t)

BlankLine(line) == \A i \in DOMAIN line : line[i] \in Whitespace

\* the maximal runs of consecutive lines that are not blank, as <<first, last>>
RunsOf(lines) ==
  {r \in (DOMAIN lines) \X (DOMAIN lines) :
     /\ r[1] <= r[2]
     /\ \A i \in r[1]..r[2] : ~BlankLine(lines[i])
     /\ r[1] = 1 \/ BlankLine(lines[r[1] - 1])
     /\ r[2] = Len(lines) \/ BlankLine(lines[r[2] + 1])}

\* the k-th run, in the order of the text
RunAt(lines, k) ==
  CHOOSE r \in RunsOf(lines) :
    Cardinality({q \in RunsOf(lines) : q[1] < r[1]}) = k - 1

\* a line ends with a space or a tab
TrailingBlank(line) == line # <<>> /\ line[Len(line)] \in {" ", "\t"}

\* the lines lines[a..b] without their trailing spaces and tabs, joined
RECURSIVE RunText(_, _, _)
RunText(lines, a, b) ==
  IF a = b THEN StripTrailingBlanks(lines[a])
  ELSE StripTrailingBlanks(lines[a]) \o <<"\n">> \o RunText(lines, a + 1, b)

\* the -m arguments among the arguments of git commit, in order
MessageArguments ==
  [k \in 1..((Len(commitArgs) - 1) \div 2) |-> commitArgs[2 * k + 1]]

\* C20: of the trimmed message one pair of wrapping quotes is removed, and
\* only when its first and last characters are the same quote character;
\* the paragraphs are the maximal runs of consecutive lines that are not
\* blank, in order, each without the trailing spaces and tabs of its lines,
\* none empty, none with a blank line; git commit gets one -m argument for
\* every paragraph, in the same order
C20_MessageFormat ==
  payload.ready =>
    LET lines == LinesOf(payload.message)
        runs == RunsOf(lines)
    IN  /\ payload.message =
             IF Wrapped(TrimmedReply)
               THEN SubSeq(TrimmedReply, 2, Len(TrimmedReply) - 1)
               ELSE TrimmedReply
        /\ Len(payload.paragraphs) = Cardinality(runs)
        /\ \A k \in DOMAIN payload.paragraphs :
             LET p == payload.paragraphs[k]
                 r == RunAt(lines, k)
             IN  /\ p # <<>>
                 /\ p = TrimEnd(RunText(lines, r[1], r[2]))
                 /\ \A i \in DOMAIN SplitOn(p, "\n") :
                      /\ ~BlankLine(SplitOn(p, "\n")[i])
                      /\ ~TrailingBlank(SplitOn(p, "\n")[i])
        /\ commitArgs # <<>> =>
             /\ Len(commitArgs) = 1 + 2 * Len(payload.paragraphs)
             /\ commitArgs[1] = "commit"
             /\ \A k \in DOMAIN payload.paragraphs :
                  /\ commitArgs[2 * k] = "-m"
                  /\ commitArgs[2 * k + 1] = Concat(payload.paragraphs[k])

\* a quoted message of two paragraphs was committed
C20_Witness ==
  /\ payload.ready
  /\ Wrapped(TrimmedReply)
  /\ Len(payload.paragraphs) = 2
  /\ MessageArguments = <<"w", "w">>


(***************************************************************************)
(* The staged diff at the budget of the prompt.                            *)
(***************************************************************************)
\* a diff of n characters, in lines of forty, that ends with the character last
DiffOf(n, last) ==
  [i \in 1..n |-> IF i = n THEN last ELSE IF i % 40 = 0 THEN "\n" ELSE "d"]

\* staged diffs around the budget: one character under it, at it, one and
\* two characters over it
BudgetDiffs ==
  {DiffOf(n, last) :
     n \in (MAX_COMMIT_DIFF_CHARS - 1)..(MAX_COMMIT_DIFF_CHARS + 2),
     last \in {"d", "\n"}}
    \cup {<<"d", "\n">>}

\* what `git status --short` prints: entries, or blanks only
BudgetStatuses == Statuses \cup {<<" ", "\n">>}

\* a run on a staged diff around the budget
CommitDiffAtBudget == CommitDiffOf(BudgetDiffs)

CommitStatusAtBudget == CommitStatusOf(BudgetStatuses)

CommitModelAtBudget == CommitModelOf({<<"w">>})

NextDiff ==
  \/ Startup
  \/ TelemetryInitialized
  \/ ConfigLoaded
  \/ Dispatch
  \/ CommitStart
  \/ CommitInside
  \/ CommitAdd
  \/ CommitDiffAtBudget
  \/ CommitStatusAtBudget
  \/ CommitModelAtBudget
  \/ CommitRun
  \/ CommitPush
  \/ HandlerSettled
  \/ MainSettled

SpecDiff == InitCommit /\ [][NextDiff]_vars

\* C21: a staged diff of at most MAX_COMMIT_DIFF_CHARS characters reaches
\* generateCommitMessage unchanged with truncated = false; a longer one is
\* cut to its first MAX_COMMIT_DIFF_CHARS characters with the truncation
\* marker appended and truncated = true; and the prompt holds the notice
\* that the diff is partial exactly when truncated is true
C21_DiffTruncation ==
  prompt.sent =>
    LET diff == stagedDiff.text
    IN  /\ Len(diff) <= MAX_COMMIT_DIFF_CHARS =>
             /\ prompt.truncatedDiff = diff
             /\ ~prompt.truncated
        /\ Len(diff) >= MAX_COMMIT_DIFF_CHARS + 1 =>
             /\ prompt.truncatedDiff =
                  SubSeq(diff, 1, MAX_COMMIT_DIFF_CHARS)
                    \o <<"\n", "\n", TruncationMarker>>
             /\ prompt.truncated
        /\ prompt.truncated <=> PartialNotice \in Range(prompt.text)

\* a prompt was built from a diff one character over the budget
C21_Witness ==
  /\ prompt.sent
  /\ Len(stagedDiff.text) = MAX_COMMIT_DIFF_CHARS + 1
  /\ prompt.truncated
  /\ PartialNotice \in Range(prompt.text)


(***************************************************************************)
(* `fast dbClear`: clearSQLiteDatabase.  A table name is a sequence of     *)
(* characters.                                                             *)
(***************************************************************************)
Users == <<"u", "s", "e", "r", "s">>

SqliteData == <<"s", "q", "l", "i", "t", "e", "d", "a", "t", "a">>

\* a user table with a name in upper case
SqliteUpper == <<"S", "Q", "L", "I", "T", "E", "X">>

\* the table SQLite keeps for AUTOINCREMENT columns
SqliteSequence ==
  <<"s", "q", "l", "i", "t", "e", "_", "s", "e", "q", "u", "e", "n", "c", "e">>

\* the tables a database may hold, in the order of sqlite_master
Databases ==
  {SelectSeq(<<Users, SqliteData, SqliteUpper, SqliteSequence>>, LAMBDA n : n \in S) :
     S \in SUBSET {Users, SqliteData, SqliteUpper, SqliteSequence}}

\* the lower-case letter of an ASCII letter in upper case; every other
\* character is left as it is
LowerChar(c) ==
  LET upper == "ABCDEFGHIJKLMNOPQRSTUVWXYZ"
      lower == "abcdefghijklmnopqrstuvwxyz"
      at == {i \in 1..26 : SubSeq(upper, i, i) = c}
  IN  IF at = {} THEN c ELSE LET i == CHOOSE j \in at : TRUE IN SubSeq(lower, i, i)

\* name LIKE 'sqlite_%' in SQLite: `sqlite` in letters of either case (LIKE
\* ignores the case of ASCII letters), then any one character for the `_`,
\* then any characters for the `%`
LikeSqliteUnderscorePercent(name) ==
  /\ Len(name) >= 7
  /\ [i \in 1..6 |-> LowerChar(name[i])] = <<"s", "q", "l", "i", "t", "e">>

\* the rows of the query of listSQLiteTables
SqliteMasterQuery(names) ==
  SelectSeq(names, LAMBDA n : ~LikeSqliteUnderscorePercent(n))

\* what sqlite3 prints for these rows: one name on a line
RECURSIVE QueryOutput(_)
QueryOutput(rows) ==
  IF rows = <<>> THEN <<>> ELSE Head(rows) \o <<"\n">> \o QueryOutput(Tail(rows))

\* the lines of the output, trimmed, without the empty ones
listSQLiteTables(stdout) ==
  LET lines == SplitLines(stdout)
      trimmed == [i \in DOMAIN lines |-> Trim(lines[i])]
  IN  SelectSeq(trimmed, LAMBDA line : Len(line) > 0)

\* name.replace(/"/g, '""') in double quotes
quoteSQLiteIdentifier(name) ==
  LET RECURSIVE Doubled(_)
      Doubled(t) ==
        IF t = <<>> THEN <<>>
        ELSE (IF Head(t) = "\"" THEN <<"\"", "\"">> ELSE <<Head(t)>>)
               \o Doubled(Tail(t))
  IN  <<"\"">> \o Doubled(name) \o <<"\"">>

Statement(verb, table) == [verb |-> verb, table |-> table]

\* the statements of the script of clearSQLiteDatabase
ClearScript(names) ==
  <<Statement("BEGIN;", <<>>)>>
    \o [i \in DOMAIN names |->
          Statement("DELETE FROM", quoteSQLiteIdentifier(names[i]))]
    \o <<Statement("COMMIT;", <<>>)>>

ResetScript == <<Statement("DELETE FROM", SqliteSequence)>>

\* how a sqlite3 child ends: it cannot be spawned, or it closes with a code
\* after writing to its standard error
SqliteOutcomes ==
  {[how |-> "error", code |-> 0, stderr |-> <<>>]}
    \cup {[how |-> "close", code |-> 0, stderr |-> <<>>]}
    \cup {[how |-> "close", code |-> 1, stderr |-> e] :
            e \in {<<>>,
                   <<"Error: ", "no such table", ": sqlite_sequence">>,
                   <<"Error: ", "No Such Table", ": sqlite_sequence">>,
                   <<"Error: ", "database is locked">>}}

\* the promise of runSqliteScript: [ok, message]
runSqliteScript(outcome) ==
  IF outcome.how = "error" THEN [ok |-> FALSE, message |-> <<"spawn sqlite3 ENOENT">>]
  ELSE IF outcome.code = 0 THEN [ok |-> TRUE, message |-> <<>>]
  ELSE [ok |-> FALSE,
        message |-> IF outcome.stderr # <<>> THEN outcome.stderr
                    ELSE <<"sqlite3 exited with code ", ToString(outcome.code)>>]

\* String.prototype.toLowerCase on a string of ASCII characters
RECURSIVE LowerCase(_)
LowerCase(string) ==
  IF Len(string) = 0 THEN ""
  ELSE LowerChar(SubSeq(string, 1, 1)) \o LowerCase(SubSeq(string, 2, Len(string)))

\* the string of a message given in pieces
RECURSIVE MessageString(_)
MessageString(message) ==
  IF message = <<>> THEN "" ELSE Head(message) \o MessageString(Tail(message))

\* String.prototype.includes
Includes(string, part) ==
  \E i \in 1..(Len(string) - Len(part) + 1) :
    SubSeq(string, i, i + Len(part) - 1) = part

isSQLiteNoSuchTableError(message) ==
  Includes(LowerCase(MessageString(message)), "no such table")

\* `fast dbClear` in a directory with a database, or without one
InitClear ==
  /\ Loaded
  /\ config = NoConfig
  /\ argv = <<"dbClear">>
  /\ env = NoEnvironment
  /\ stdinTTY = TRUE /\ stdoutTTY = TRUE /\ hasFzf = TRUE
  /\ UsualIdentity
  /\ cwd \in 0..1
  /\ blade \in [0..cwd -> {"file", "ENOENT"}]
  /\ testsDir = [stat |-> "ENOENT", files |-> <<>>]
  /\ telemetryDebug = FALSE
  /\ loggerAvailable \in BOOLEAN
  /\ dbTables \in Databases

\* runDBClear has cleared the database: it prints and returns
Cleared ==
  /\ out' = Append(out, Line("dbCleared", ""))
  /\ result' = Settled(TRUE, NoError)
  /\ pc' = "settle"

\* the sqlite3 of runSqliteScript runs
ScriptRunning == [how |-> "running", code |-> 0, stderr |-> <<>>]

\* runSqliteScript(dbPath, script) up to its await: sqlite3 is spawned and
\* the script is written to its standard input
StartScript(script, children) ==
  /\ scripts' = Append(scripts, [script |-> script, outcome |-> ScriptRunning])
  /\ spawned' = Append(children, Child("sqlite3", "", "script", "running"))

\* the sqlite3 of the last call of runSqliteScript ended with outcome
EndScript(outcome) ==
  [scripts EXCEPT ![Len(scripts)] = [@ EXCEPT !.outcome = outcome]]

\* how the child of an outcome ended
OutcomeState(outcome) ==
  IF outcome.how = "error" THEN "error"
  ELSE IF outcome.code = 0 THEN "exit0" ELSE "failed"

\* clearSQLiteDatabase once listSQLiteTables settled: it returns without
\* tables, and runDBClear prints; else the script of the transaction is run
ClearList ==
  /\ pc = "clearList"
  /\ \E listed \in BOOLEAN :
       IF ~listed
         THEN /\ spawned' = SetLastState("failed")
              /\ Throw(Error("execFailed", "sqlite3", <<>>))
              /\ UNCHANGED <<tables, scripts, out>>
         ELSE LET names == listSQLiteTables(QueryOutput(SqliteMasterQuery(dbTables)))
              IN  /\ tables' = [listed |-> TRUE, names |-> names]
                  /\ IF names = <<>>
                       THEN /\ Cleared
                            /\ spawned' = SetLastState("exit0")
                            /\ UNCHANGED scripts
                       ELSE /\ StartScript(ClearScript(names), SetLastState("exit0"))
                            /\ pc' = "clearTransaction"
                            /\ UNCHANGED <<out, result>>
  /\ UNCHANGED <<inputs, chatState, telemetryState, paletteInput, selected, identity,
                 commitState, walk, args, commandCatalog, commandRegistry,
                 telemetry, exit, invoked, paletteResult, resolveCalls, selector,
                 current, run, secretResults>>

\* clearSQLiteDatabase once the script of the transaction settled: the
\* reset of sqlite_sequence is run
ClearTransaction ==
  /\ pc = "clearTransaction"
  /\ \E outcome \in SqliteOutcomes :
       IF runSqliteScript(outcome).ok
         THEN /\ scripts' = Append(EndScript(outcome),
                                   [script |-> ResetScript, outcome |-> ScriptRunning])
              /\ spawned' = Append(SetLastState(OutcomeState(outcome)),
                                   Child("sqlite3", "", "script", "running"))
              /\ pc' = "clearReset"
              /\ UNCHANGED result
         ELSE /\ scripts' = EndScript(outcome)
              /\ spawned' = SetLastState(OutcomeState(outcome))
              /\ Throw(Error("sqliteFailed", "transaction",
                             runSqliteScript(outcome).message))
  /\ UNCHANGED <<tables, out>>
  /\ UNCHANGED <<inputs, chatState, telemetryState, paletteInput, selected, identity,
                 commitState, walk, args, commandCatalog, commandRegistry,
                 telemetry, exit, invoked, paletteResult, resolveCalls, selector,
                 current, run, secretResults>>

\* clearSQLiteDatabase once the reset settled; then runDBClear prints
ClearReset ==
  /\ pc = "clearReset"
  /\ \E outcome \in SqliteOutcomes :
       /\ scripts' = EndScript(outcome)
       /\ spawned' = SetLastState(OutcomeState(outcome))
       /\ LET reset == runSqliteScript(outcome)
          IN  IF reset.ok \/ isSQLiteNoSuchTableError(reset.message)
                THEN Cleared
                ELSE /\ Throw(Error("sqliteFailed", "reset", reset.message))
                     /\ UNCHANGED out
  /\ UNCHANGED tables
  /\ UNCHANGED <<inputs, chatState, telemetryState, paletteInput, selected, identity,
                 commitState, walk, args, commandCatalog, commandRegistry,
                 telemetry, exit, invoked, paletteResult, resolveCalls, selector,
                 current, run, secretResults>>

\* the sqlite3 of a script ended before it read its standard input: the
\* write of the script fails, child.stdin has no listener for the error,
\* and the process dies of it: the promise of runSqliteScript stays pending
\* and neither main nor the close handler runs
ScriptStdinError ==
  /\ pc \in {"clearTransaction", "clearReset"}
  /\ exit' = Crashed
  /\ pc' = "done"
  /\ UNCHANGED <<tables, scripts, spawned, out, result>>
  /\ UNCHANGED <<inputs, chatState, telemetryState, paletteInput, selected, identity,
                 commitState, walk, args, commandCatalog, commandRegistry,
                 telemetry, invoked, paletteResult, resolveCalls, selector,
                 current, run, secretResults>>

NextClear ==
  \/ Startup
  \/ TelemetryInitialized
  \/ ConfigLoaded
  \/ Dispatch
  \/ LocateStart
  \/ LocateStep
  \/ ClearList
  \/ ClearTransaction
  \/ ClearReset
  \/ ScriptStdinError
  \/ HandlerSettled
  \/ MainSettled

SpecClear == InitClear /\ [][NextClear]_vars

\* `fast dbOpen` or `fast dbClear` in any directory, whatever the database
\* path is in it and in the directories above it
InitLocate ==
  /\ Loaded
  /\ config = NoConfig
  /\ argv \in {<<"dbOpen">>, <<"dbClear">>}
  /\ env = NoEnvironment
  /\ stdinTTY = TRUE /\ stdoutTTY = TRUE /\ hasFzf = TRUE
  /\ UsualIdentity
  /\ cwd \in 0..MaxDepth
  /\ blade \in [0..cwd -> StatResults]
  /\ testsDir = [stat |-> "ENOENT", files |-> <<>>]
  /\ telemetryDebug = FALSE
  /\ loggerAvailable = TRUE
  /\ dbTables = <<Users>>

NextLocate ==
  \/ Startup
  \/ TelemetryInitialized
  \/ ConfigLoaded
  \/ Dispatch
  \/ LocateStart
  \/ LocateStep
  \/ DBOpenClose
  \/ ClearList
  \/ ClearTransaction
  \/ ClearReset
  \/ ScriptStdinError
  \/ HandlerSettled
  \/ MainSettled

SpecLocate == InitLocate /\ [][NextLocate]_vars

\* the user tables of the database: the names that do not start with sqlite_
UserTables ==
  SelectSeq(dbTables,
            LAMBDA n : ~(Len(n) >= 7
                          /\ SubSeq(n, 1, 7) = <<"s", "q", "l", "i", "t", "e", "_">>))

\* the calls of runSqliteScript that ran the transaction, and the reset
Transactions == {i \in DOMAIN scripts : scripts[i].script[1].verb = "BEGIN;"}

Resets == {i \in DOMAIN scripts : scripts[i].script = ResetScript}

\* the tables the script deletes from, between BEGIN and COMMIT
DeletedBy(script) ==
  LET inner == SubSeq(script, 2, Len(script) - 1)
  IN  [i \in DOMAIN inner |-> inner[i].table]

ClearOver == result.settled /\ tables.listed

\* C22 as stated: the DELETE statements for all the tables whose name does
\* not start with sqlite_ are in one BEGIN/COMMIT script; the reset of
\* sqlite_sequence is attempted only after that script succeeded; the command
\* succeeds when the reset succeeds or fails with `no such table`, and fails
\* on every other error of the transaction or of the reset
C22_Original ==
  ClearOver =>
    /\ UserTables # <<>> =>
         /\ Cardinality(Transactions) = 1
         /\ \A i \in Transactions :
              /\ scripts[i].script[Len(scripts[i].script)].verb = "COMMIT;"
              /\ DeletedBy(scripts[i].script)
                   = [k \in DOMAIN UserTables |-> quoteSQLiteIdentifier(UserTables[k])]
    /\ \A j \in Resets :
         \E i \in Transactions : i < j /\ runSqliteScript(scripts[i].outcome).ok
    /\ (UserTables # <<>>) =>
         (result.ok <=>
            /\ \A i \in Transactions : runSqliteScript(scripts[i].outcome).ok
            /\ Resets # {}
            /\ \A j \in Resets :
                 \/ runSqliteScript(scripts[j].outcome).ok
                 \/ isSQLiteNoSuchTableError(runSqliteScript(scripts[j].outcome).message))


(***************************************************************************)
(* The registry and the names handleTopLevel keeps for itself.             *)
(***************************************************************************)
\* the run named a registered command, alone on the command line
NamedRegistered == Len(argv) = 1 /\ argv[1] \in DOMAIN commandRegistry

\* C23 as stated: a run whose argument vector is one name of the registry,
\* a config task named like a word of handleTopLevel too, calls the handler
\* registered under that name, and no other
C23_Original ==
  (pc = "done" /\ NamedRegistered) =>
    /\ invoked = <<argv[1]>>
    /\ current = commandRegistry[argv[1]]

\* the names of the catalog are pairwise different
CatalogNamesDistinct ==
  \A i, j \in DOMAIN commandCatalog :
    commandCatalog[i].name = commandCatalog[j].name => i = j

\* every entry of the catalog after the initial `help` has a handler
CatalogEntriesHandled ==
  \A i \in DOMAIN commandCatalog :
    i > 1 => commandCatalog[i].name \in DOMAIN commandRegistry

\* C24 as stated: after the startup no two entries of the catalog have the
\* same name, with a task named `help` in the configuration too, and every
\* entry but the initial `help` has a handler in the registry
C24_Original ==
  Started => CatalogNamesDistinct /\ CatalogEntriesHandled


(***************************************************************************)
(* `fast chat`: the chat view ChatApp.  A text is a sequence of            *)
(* characters.  React applies the updates of a state in the order they     *)
(* were made, when it renders; a handler sees the state of the render that *)
(* made it.                                                                *)
(***************************************************************************)
\* the longest input typed
MaxTyped == 2
\* the most requests a run sends
MaxSent == 2

\* the keys the user presses
Keys == {"a", "shift+return", "backspace", "tab", "return", "escape", "ctrl+c"}

\* how a call of requestCompletion ends: a reply, or an error
Completions == {[ok |-> TRUE, text |-> <<"r">>], [ok |-> FALSE, text |-> <<"e">>]}

Message(id, role, content, status) ==
  [id |-> id, role |-> role, content |-> content, status |-> status]

\* the messages ChatApp starts with
InitialMessages == <<Message(0, "assistant", <<"g">>, "none")>>

\* `fast chat`, with or without an API key
InitChat ==
  /\ Loaded
  /\ config = NoConfig
  /\ argv = <<"chat">>
  /\ env = NoEnvironment
  /\ stdinTTY = TRUE /\ stdoutTTY = TRUE /\ hasFzf = TRUE
  /\ scriptPath = SomeText(<<"/", "bin", "/", "fast">>)
  /\ flowEnv \in {[FLOW_COMMAND_NAME |-> NoText, FLOW_COMMAND_SUMMARY |-> NoText,
                   OPENAI_API_KEY |-> k] : k \in {NoText, SomeText(<<"sk">>)}}
  /\ NoProject

\* runChatTui: resolveOpenAIKey, then startChatInterface renders ChatApp
ChatStart ==
  /\ pc = "handler"
  /\ current.kind = "builtin" /\ current.name = "chat"
  /\ IF ~lookupNonEmptyEnv(flowEnv, OPENAI_API_KEY_ENV).defined
       THEN /\ Throw(Error("noApiKey", OPENAI_API_KEY_ENV, <<>>))
            /\ UNCHANGED <<view, rendered>>
       ELSE /\ view' = [mounted |-> TRUE, messages |-> InitialMessages,
                        input |-> <<>>, isSending |-> FALSE, statusLine |-> "Ready"]
            /\ rendered' = [messages |-> InitialMessages, input |-> <<>>,
                            isSending |-> FALSE]
            /\ result' = Settled(TRUE, NoError)
            /\ pc' = "settle"
  /\ UNCHANGED <<inputs, sqlite, telemetryState, paletteInput, selected, walk,
                 commitState, identity, args, commandCatalog, commandRegistry,
                 out, telemetry, exit, invoked, spawned, paletteResult,
                 resolveCalls, selector, current, run, secretResults, nextId,
                 requests>>

\* the view is on screen and the process is alive
ChatLive == pc = "done" /\ view.mounted /\ exit = Returned

\* the history submitPrompt sends: the messages with content
History(messages) ==
  LET kept == SelectSeq(messages, LAMBDA m : Len(Trim(m.content)) > 0)
  IN  [i \in DOMAIN kept |-> [role |-> kept[i].role, content |-> kept[i].content]]

\* submitPrompt, called in the render r with the state v: [view, nextId, requests]
submitPrompt(v, r, id, sentSoFar) ==
  LET trimmed == Trim(r.input)
  IN  IF trimmed = <<>>
        THEN [view |-> [v EXCEPT !.statusLine = "Type a message to send"],
              nextId |-> id, requests |-> sentSoFar]
      ELSE IF r.isSending
        THEN [view |-> v, nextId |-> id, requests |-> sentSoFar]
      ELSE [view |-> [v EXCEPT
                        !.input = <<>>,
                        !.statusLine = "Sending...",
                        !.isSending = TRUE,
                        !.messages = @ \o <<Message(id, "user", trimmed, "none"),
                                            Message(id + 1, "assistant", <<>>,
                                                    "loading")>>],
            nextId |-> id + 2,
            requests |-> Append(sentSoFar,
                                [assistant |-> id + 1, prompt |-> trimmed,
                                 history |-> History(r.messages),
                                 state |-> "pending"])]

\* prev.slice(0, -1)
DropLast(t) == IF t = <<>> THEN <<>> ELSE SubSeq(t, 1, Len(t) - 1)

\* the handler of useKeyboard, on one key
Keyboard ==
  /\ ChatLive
  /\ \E key \in Keys :
       IF key \in {"ctrl+c", "escape"}
         THEN /\ exit' = Exited(0)
              /\ UNCHANGED <<view, nextId, requests>>
       ELSE IF key = "return"
         THEN /\ Len(requests) < MaxSent
              /\ LET sent1 == IF ~rendered.isSending
                                THEN submitPrompt(view, rendered, nextId, requests)
                                ELSE [view |-> view, nextId |-> nextId,
                                      requests |-> requests]
                 IN  /\ view' = sent1.view
                     /\ nextId' = sent1.nextId
                     /\ requests' = sent1.requests
              /\ UNCHANGED exit
       ELSE /\ LET typed ==
                     IF key = "shift+return" THEN Append(view.input, "\n")
                     ELSE IF key = "backspace"
                       THEN IF Len(rendered.input) > 0 THEN DropLast(view.input)
                                                       ELSE view.input
                     ELSE IF key = "tab" THEN view.input \o <<" ", " ">>
                     ELSE Append(view.input, key)
               IN  /\ Len(typed) <= MaxTyped
                   /\ view' = [view EXCEPT !.input = typed]
            /\ UNCHANGED <<exit, nextId, requests>>
  /\ UNCHANGED <<inputs, sqlite, telemetryState, paletteInput, selected, walk,
                 commitState, identity, pc, args, commandCatalog, commandRegistry,
                 out, telemetry, invoked, spawned, paletteResult, resolveCalls,
                 selector, current, run, secretResults, result, rendered>>

\* React renders ChatApp with the updates made since the last render
Render ==
  /\ ChatLive
  /\ rendered # [messages |-> view.messages, input |-> view.input,
                 isSending |-> view.isSending]
  /\ rendered' = [messages |-> view.messages, input |-> view.input,
                  isSending |-> view.isSending]
  /\ UNCHANGED <<inputs, sqlite, telemetryState, paletteInput, selected, walk,
                 commitState, identity, pc, args, commandCatalog, commandRegistry,
                 out, telemetry, exit, invoked, spawned, paletteResult,
                 resolveCalls, selector, current, run, secretResults, result,
                 view, nextId, requests>>

\* requestCompletion settles: the rest of submitPrompt, its finally included
Completion ==
  /\ ChatLive
  /\ \E i \in DOMAIN requests, c \in Completions :
       /\ requests[i].state = "pending"
       /\ requests' = [requests EXCEPT ![i].state = IF c.ok THEN "resolved"
                                                            ELSE "rejected"]
       /\ view' = [view EXCEPT
                     !.messages =
                       [k \in DOMAIN @ |->
                          IF @[k].id = requests[i].assistant
                            THEN [@[k] EXCEPT !.content = c.text,
                                              !.status = IF c.ok THEN "idle"
                                                                 ELSE "error"]
                            ELSE @[k]],
                     !.statusLine = IF c.ok THEN "Response received"
                                            ELSE "Request failed",
                     !.isSending = FALSE]
  /\ UNCHANGED <<inputs, sqlite, telemetryState, paletteInput, selected, walk,
                 commitState, identity, pc, args, commandCatalog, commandRegistry,
                 out, telemetry, exit, invoked, spawned, paletteResult,
                 resolveCalls, selector, current, run, secretResults, result,
                 rendered, nextId>>

NextChat ==
  \/ Startup
  \/ TelemetryInitialized
  \/ ConfigLoaded
  \/ Dispatch
  \/ ChatStart
  \/ HandlerSettled
  \/ MainSettled
  \/ Keyboard
  \/ Render
  \/ Completion

SpecChat == InitChat /\ [][NextChat]_vars

\* the requests in flight
InFlight == {i \in DOMAIN requests : requests[i].state = "pending"}

\* the assistant messages that wait for their reply
Loading == {k \in DOMAIN view.messages : view.messages[k].status = "loading"}

\* C25 as stated: at most one completion request is in flight, whatever the
\* order of the keys, the renders and the completions, so at most one
\* assistant message waits for a reply; and isSending is false once every
\* request has settled
C25_Original ==
  /\ Cardinality(InFlight) <= 1
  /\ Cardinality(Loading) <= 1
  /\ InFlight = {} => ~view.isSending

====
